---- MODULE Spec2Model ----
(***************************************************************************)
(* Model of the billing query facade of app/services/aws_service.py and of *)
(* the report endpoints of app/main.py.                                    *)
(*                                                                         *)
(* Amounts are integers: raw provider amounts are in thousandths of the    *)
(* currency unit ("mills"), rounded values are in hundredths ("cents").    *)
(* round(x, 2) takes a tie to the even cent; the amounts of the model are  *)
(* such that every tie among their sums is a number a float holds exactly. *)
(* Python's None is the string None; an unset environment variable reads   *)
(* as None.                                                                *)
(*                                                                         *)
(* Spec is the facade and the endpoints in every environment, with sample  *)
(* answers of the provider; SpecReshape is the reshaping code on bounded   *)
(* families of answers; SpecEnv is Spec with an actor that assigns the     *)
(* environment during a billing call; SpecSynthetic is the synthetic       *)
(* generators on bounded draws of random.                                  *)
(***************************************************************************)
EXTENDS Integers, Sequences, FiniteSets, TLC

VARIABLES
    env,        \* os.environ: variable name -> value, None when unset
    pc,         \* "idle", "live" (suspended in client.get_cost_and_usage), "done", "responded"
    caller,     \* "none", "direct" (the facade function is called itself), or the
                \* endpoint of app/main.py that calls it
    op,         \* the facade operation being executed, "none" when idle
    ctx,        \* its arguments access_key, secret_key, force_demo
    granularity,\* its argument granularity, None when it has none
    query,      \* the keyword arguments of its call of client.get_cost_and_usage
    client,     \* the keyword arguments boto3.client was created with
    liveCalls,  \* calls of client.get_cost_and_usage made by the current operation
    genCalls,   \* calls of a synthetic generator made by the current operation
    response,   \* what the billing call of the current operation answered:
                \* [kind: "none" | "report" | "error", report, error]
    result,     \* outcome of the current operation:
                \* [kind: "none" | "return" | "raise", source, generator, data, error]
    first,      \* get_billing: the outcome of get_aws_cost_and_usage, kept while
                \* get_aws_daily_usage runs
    http,       \* get_billing: the HTTP response
    today,      \* the date datetime.now() gives
    dates,      \* the operation's arguments start_date and end_date, NoDate when
                \* it has none
    period,     \* the keyword argument TimePeriod of its call of
                \* client.get_cost_and_usage
    atCall      \* os.environ as it was when the current operation was entered;
                \* the code keeps no such copy, the properties refer to it

vars == <<env, pc, caller, op, ctx, granularity, query, client, liveCalls, genCalls, response,
          result, first, http, today, dates, period, atCall>>

-----------------------------------------------------------------------------
(* Bounds and vocabularies *)

MaxBuckets == 2

\* groups in a report of the bounded families, pieces of a usage type
MaxGroups == 3
MaxPieces == 5

None == "None"

Operations ==
    { "get_aws_cost_and_usage", "get_aws_daily_usage", "get_daily_cost",
      "get_service_cost", "get_region_cost", "get_region_service_breakdown",
      "get_aws_resource_usage" }

\* Values a caller passes as access_key / secret_key: a missing header, an
\* empty header, a key.
CallerAccessKeys == { None, "", "AK" }
CallerSecretKeys == { None, "", "SK" }

\* Values a caller passes as granularity.
Granularities == { "MONTHLY", "DAILY" }

\* Values of the x-use-demo-data header.
DemoHeaders == { None, "true", "True" }

EnvNames ==
    { "USE_DEMO_DATA", "FALLBACK_TO_DEMO", "AWS_ACCESS_KEY_ID",
      "AWS_SECRET_ACCESS_KEY", "AWS_REGION" }

EnvValues(name) ==
    CASE name = "USE_DEMO_DATA"         -> { None, "TRUE", "false" }
      [] name = "FALLBACK_TO_DEMO"      -> { None, "True", "false" }
      [] name = "AWS_ACCESS_KEY_ID"     -> { None, "", "EAK" }
      [] name = "AWS_SECRET_ACCESS_KEY" -> { None, "", "ESK" }
      [] name = "AWS_REGION"            -> { None, "", "eu-west-1" }

Environments == { e \in [EnvNames -> UNION { EnvValues(n) : n \in EnvNames }] :
                    \A n \in EnvNames : e[n] \in EnvValues(n) }

-----------------------------------------------------------------------------
(* Python primitives *)

\* os.environ.get(name, default)
EnvGet(e, name, default) == IF e[name] = None THEN default ELSE e[name]

\* str.lower() on the strings of the vocabulary
Lower(s) ==
    CASE s = "TRUE" -> "true"
      [] s = "True" -> "true"
      [] OTHER      -> s

\* truth value of an optional string: None and "" are false
Truthy(v) == v # None /\ v # ""

\* a or b
Or(a, b) == IF Truthy(a) THEN a ELSE b

\* os.environ.get('FALLBACK_TO_DEMO', 'false').lower() == 'true'
FallbackToDemo(e) == Lower(EnvGet(e, "FALLBACK_TO_DEMO", "false")) = "true"

-----------------------------------------------------------------------------
(* Outcomes of the part of an operation that runs before the billing call *)

(* What a stretch of an operation's code ends in:                          *)
(*   "synthetic"  return <generator>(...)                                  *)
(*   "raise"      raise error                                              *)
(*   "live"       client = boto3.client(...); client.get_cost_and_usage()  *)
(*   "return"     return data, reshaped from the provider's answer         *)

NoClient == [aws_access_key_id |-> None, aws_secret_access_key |-> None, region_name |-> None]

NoError == [type |-> None, code |-> None, message |-> None]

NoData == [empty |-> TRUE]

\* return <generator>(...)
UseSynthetic(generator) ==
    [kind |-> "synthetic", generator |-> generator, error |-> NoError, client |-> NoClient,
     data |-> NoData]

\* raise err
Raise(err) ==
    [kind |-> "raise", generator |-> None, error |-> err, client |-> NoClient, data |-> NoData]

\* raise Exception(message)
CredentialsMissing(message) ==
    Raise([type |-> "Exception", code |-> None, message |-> message])

\* boto3.client('ce', aws_access_key_id=..., aws_secret_access_key=..., region_name=...)
\* followed by client.get_cost_and_usage(...)
UseLive(access_key, secret_key, region) ==
    [kind |-> "live", generator |-> None, error |-> NoError,
     client |-> [aws_access_key_id |-> access_key, aws_secret_access_key |-> secret_key,
                 region_name |-> region],
     data |-> NoData]

\* return data
ReturnLive(data) ==
    [kind |-> "return", generator |-> None, error |-> NoError, client |-> NoClient,
     data |-> data]

-----------------------------------------------------------------------------
(* The seven report-producing operations, up to the creation of the client *)

\* Variant of get_aws_cost_and_usage: the USE_DEMO_DATA test is left out, as
\* in the other six operations
get_aws_cost_and_usage_no_demo_switch(access_key, secret_key, force_demo, e) ==
    IF force_demo THEN UseSynthetic("generate_mock_data")
    ELSE
    LET final_access_key == Or(access_key, EnvGet(e, "AWS_ACCESS_KEY_ID", None))
        final_secret_key == Or(secret_key, EnvGet(e, "AWS_SECRET_ACCESS_KEY", None))
        final_region == EnvGet(e, "AWS_REGION", "us-east-1")
    IN  IF ~Truthy(final_access_key) \/ ~Truthy(final_secret_key)
        THEN IF Lower(EnvGet(e, "FALLBACK_TO_DEMO", "false")) = "true"
             THEN UseSynthetic("generate_mock_data")
             ELSE CredentialsMissing("AWS Credentials not provided and demo mode not active.")
        ELSE UseLive(final_access_key, final_secret_key, final_region)

get_aws_cost_and_usage(access_key, secret_key, force_demo, e) ==
    IF force_demo THEN UseSynthetic("generate_mock_data")
    ELSE
    LET has_direct_credentials == access_key # None /\ secret_key # None
        use_demo_env == Lower(EnvGet(e, "USE_DEMO_DATA", "false")) = "true"
        final_access_key == Or(access_key, EnvGet(e, "AWS_ACCESS_KEY_ID", None))
        final_secret_key == Or(secret_key, EnvGet(e, "AWS_SECRET_ACCESS_KEY", None))
        final_region == EnvGet(e, "AWS_REGION", "us-east-1")
    IN  IF ~has_direct_credentials /\ use_demo_env
        THEN UseSynthetic("generate_mock_data")
        ELSE IF ~Truthy(final_access_key) \/ ~Truthy(final_secret_key)
        THEN IF Lower(EnvGet(e, "FALLBACK_TO_DEMO", "false")) = "true"
             THEN UseSynthetic("generate_mock_data")
             ELSE CredentialsMissing("AWS Credentials not provided and demo mode not active.")
        ELSE UseLive(final_access_key, final_secret_key, final_region)

get_aws_daily_usage(access_key, secret_key, force_demo, e) ==
    IF force_demo THEN UseSynthetic("inline_daily_cost")
    ELSE
    LET final_access_key == Or(access_key, EnvGet(e, "AWS_ACCESS_KEY_ID", None))
        final_secret_key == Or(secret_key, EnvGet(e, "AWS_SECRET_ACCESS_KEY", None))
        final_region == EnvGet(e, "AWS_REGION", "us-east-1")
    IN  IF ~Truthy(final_access_key) \/ ~Truthy(final_secret_key)
        THEN IF Lower(EnvGet(e, "FALLBACK_TO_DEMO", "false")) = "true"
             THEN UseSynthetic("inline_daily_cost")
             ELSE CredentialsMissing("AWS Credentials not provided.")
        ELSE UseLive(final_access_key, final_secret_key, final_region)

get_daily_cost(access_key, secret_key, force_demo, e) ==
    IF force_demo THEN UseSynthetic("generate_mock_daily_cost")
    ELSE
    LET final_access_key == Or(access_key, EnvGet(e, "AWS_ACCESS_KEY_ID", None))
        final_secret_key == Or(secret_key, EnvGet(e, "AWS_SECRET_ACCESS_KEY", None))
        final_region == EnvGet(e, "AWS_REGION", "us-east-1")
    IN  IF ~Truthy(final_access_key) \/ ~Truthy(final_secret_key)
        THEN IF Lower(EnvGet(e, "FALLBACK_TO_DEMO", "false")) = "true"
             THEN UseSynthetic("generate_mock_daily_cost")
             ELSE CredentialsMissing("AWS Credentials not provided.")
        ELSE UseLive(final_access_key, final_secret_key, final_region)

\* Variant of get_service_cost: the keys count as missing only when both are
\* (and for or)
get_service_cost_both_missing(access_key, secret_key, force_demo, e) ==
    IF force_demo THEN UseSynthetic("generate_mock_service_cost")
    ELSE
    LET final_access_key == Or(access_key, EnvGet(e, "AWS_ACCESS_KEY_ID", None))
        final_secret_key == Or(secret_key, EnvGet(e, "AWS_SECRET_ACCESS_KEY", None))
        final_region == EnvGet(e, "AWS_REGION", "us-east-1")
    IN  IF ~Truthy(final_access_key) /\ ~Truthy(final_secret_key)
        THEN IF Lower(EnvGet(e, "FALLBACK_TO_DEMO", "false")) = "true"
             THEN UseSynthetic("generate_mock_service_cost")
             ELSE CredentialsMissing("AWS Credentials not provided.")
        ELSE UseLive(final_access_key, final_secret_key, final_region)

get_service_cost(access_key, secret_key, force_demo, e) ==
    IF force_demo THEN UseSynthetic("generate_mock_service_cost")
    ELSE
    LET final_access_key == Or(access_key, EnvGet(e, "AWS_ACCESS_KEY_ID", None))
        final_secret_key == Or(secret_key, EnvGet(e, "AWS_SECRET_ACCESS_KEY", None))
        final_region == EnvGet(e, "AWS_REGION", "us-east-1")
    IN  IF ~Truthy(final_access_key) \/ ~Truthy(final_secret_key)
        THEN IF Lower(EnvGet(e, "FALLBACK_TO_DEMO", "false")) = "true"
             THEN UseSynthetic("generate_mock_service_cost")
             ELSE CredentialsMissing("AWS Credentials not provided.")
        ELSE UseLive(final_access_key, final_secret_key, final_region)

\* Variant of get_region_cost: the caller's keys are used only as a pair,
\* otherwise both keys come from the environment
get_region_cost_keys_as_pair(access_key, secret_key, force_demo, e) ==
    IF force_demo THEN UseSynthetic("generate_mock_region_cost")
    ELSE
    LET pair == Truthy(access_key) /\ Truthy(secret_key)
        final_access_key == IF pair THEN access_key ELSE EnvGet(e, "AWS_ACCESS_KEY_ID", None)
        final_secret_key == IF pair THEN secret_key ELSE EnvGet(e, "AWS_SECRET_ACCESS_KEY", None)
        final_region == EnvGet(e, "AWS_REGION", "us-east-1")
    IN  IF ~Truthy(final_access_key) \/ ~Truthy(final_secret_key)
        THEN IF Lower(EnvGet(e, "FALLBACK_TO_DEMO", "false")) = "true"
             THEN UseSynthetic("generate_mock_region_cost")
             ELSE CredentialsMissing("AWS Credentials not provided.")
        ELSE UseLive(final_access_key, final_secret_key, final_region)

get_region_cost(access_key, secret_key, force_demo, e) ==
    IF force_demo THEN UseSynthetic("generate_mock_region_cost")
    ELSE
    LET final_access_key == Or(access_key, EnvGet(e, "AWS_ACCESS_KEY_ID", None))
        final_secret_key == Or(secret_key, EnvGet(e, "AWS_SECRET_ACCESS_KEY", None))
        final_region == EnvGet(e, "AWS_REGION", "us-east-1")
    IN  IF ~Truthy(final_access_key) \/ ~Truthy(final_secret_key)
        THEN IF Lower(EnvGet(e, "FALLBACK_TO_DEMO", "false")) = "true"
             THEN UseSynthetic("generate_mock_region_cost")
             ELSE CredentialsMissing("AWS Credentials not provided.")
        ELSE UseLive(final_access_key, final_secret_key, final_region)

\* Variant of get_region_service_breakdown: force_demo is not looked at
get_region_service_breakdown_no_force_demo(access_key, secret_key, force_demo, e) ==
    LET final_access_key == Or(access_key, EnvGet(e, "AWS_ACCESS_KEY_ID", None))
        final_secret_key == Or(secret_key, EnvGet(e, "AWS_SECRET_ACCESS_KEY", None))
        final_region == EnvGet(e, "AWS_REGION", "us-east-1")
    IN  IF ~Truthy(final_access_key) \/ ~Truthy(final_secret_key)
        THEN IF Lower(EnvGet(e, "FALLBACK_TO_DEMO", "false")) = "true"
             THEN UseSynthetic("generate_mock_region_service_breakdown")
             ELSE CredentialsMissing("AWS Credentials not provided.")
        ELSE UseLive(final_access_key, final_secret_key, final_region)

get_region_service_breakdown(access_key, secret_key, force_demo, e) ==
    IF force_demo THEN UseSynthetic("generate_mock_region_service_breakdown")
    ELSE
    LET final_access_key == Or(access_key, EnvGet(e, "AWS_ACCESS_KEY_ID", None))
        final_secret_key == Or(secret_key, EnvGet(e, "AWS_SECRET_ACCESS_KEY", None))
        final_region == EnvGet(e, "AWS_REGION", "us-east-1")
    IN  IF ~Truthy(final_access_key) \/ ~Truthy(final_secret_key)
        THEN IF Lower(EnvGet(e, "FALLBACK_TO_DEMO", "false")) = "true"
             THEN UseSynthetic("generate_mock_region_service_breakdown")
             ELSE CredentialsMissing("AWS Credentials not provided.")
        ELSE UseLive(final_access_key, final_secret_key, final_region)

get_aws_resource_usage(access_key, secret_key, force_demo, e) ==
    IF force_demo THEN UseSynthetic("generate_mock_usage_data")
    ELSE
    LET final_access_key == Or(access_key, EnvGet(e, "AWS_ACCESS_KEY_ID", None))
        final_secret_key == Or(secret_key, EnvGet(e, "AWS_SECRET_ACCESS_KEY", None))
        final_region == EnvGet(e, "AWS_REGION", "us-east-1")
    IN  IF ~Truthy(final_access_key) \/ ~Truthy(final_secret_key)
        THEN IF Lower(EnvGet(e, "FALLBACK_TO_DEMO", "false")) = "true"
             THEN UseSynthetic("generate_mock_usage_data")
             ELSE CredentialsMissing("AWS Credentials not provided and demo mode not active.")
        ELSE UseLive(final_access_key, final_secret_key, final_region)

\* The operation o applied to its arguments
Resolve(o, access_key, secret_key, force_demo, e) ==
    CASE o = "get_aws_cost_and_usage" -> get_aws_cost_and_usage(access_key, secret_key, force_demo, e)
      [] o = "get_aws_daily_usage" -> get_aws_daily_usage(access_key, secret_key, force_demo, e)
      [] o = "get_daily_cost" -> get_daily_cost(access_key, secret_key, force_demo, e)
      [] o = "get_service_cost" -> get_service_cost(access_key, secret_key, force_demo, e)
      [] o = "get_region_cost" -> get_region_cost(access_key, secret_key, force_demo, e)
      [] o = "get_region_service_breakdown" -> get_region_service_breakdown(access_key, secret_key, force_demo, e)
      [] o = "get_aws_resource_usage" -> get_aws_resource_usage(access_key, secret_key, force_demo, e)

-----------------------------------------------------------------------------
(* The query of each operation: the keyword arguments Granularity, Metrics *)
(* and GroupBy of its call of client.get_cost_and_usage. A call without    *)
(* GroupBy has the empty sequence.                                         *)

Dimension(key) == [Type |-> "DIMENSION", Key |-> key]

get_aws_cost_and_usage_query(g) ==
    [Granularity |-> g, Metrics |-> << "AmortizedCost" >>,
     GroupBy |-> << Dimension("REGION"), Dimension("SERVICE") >>]

get_aws_daily_usage_query(g) ==
    [Granularity |-> "DAILY", Metrics |-> << "AmortizedCost" >>, GroupBy |-> <<>>]

\* Variant of the query of get_daily_cost: the amortized cost is asked for
get_daily_cost_query_amortized(g) ==
    [Granularity |-> "DAILY", Metrics |-> << "AmortizedCost" >>, GroupBy |-> <<>>]

get_daily_cost_query(g) ==
    [Granularity |-> "DAILY", Metrics |-> << "UnblendedCost" >>, GroupBy |-> <<>>]

get_service_cost_query(g) ==
    [Granularity |-> "MONTHLY", Metrics |-> << "UnblendedCost" >>,
     GroupBy |-> << Dimension("SERVICE") >>]

get_region_cost_query(g) ==
    [Granularity |-> "MONTHLY", Metrics |-> << "UnblendedCost" >>,
     GroupBy |-> << Dimension("REGION") >>]

get_region_service_breakdown_query(g) ==
    [Granularity |-> "MONTHLY", Metrics |-> << "UnblendedCost" >>,
     GroupBy |-> << Dimension("REGION"), Dimension("SERVICE") >>]

get_aws_resource_usage_query(g) ==
    [Granularity |-> "MONTHLY", Metrics |-> << "UsageQuantity", "AmortizedCost" >>,
     GroupBy |-> << Dimension("SERVICE"), Dimension("USAGE_TYPE") >>]

\* The query of operation o called with granularity g
Query(o, g) ==
    CASE o = "get_aws_cost_and_usage" -> get_aws_cost_and_usage_query(g)
      [] o = "get_aws_daily_usage" -> get_aws_daily_usage_query(g)
      [] o = "get_daily_cost" -> get_daily_cost_query(g)
      [] o = "get_service_cost" -> get_service_cost_query(g)
      [] o = "get_region_cost" -> get_region_cost_query(g)
      [] o = "get_region_service_breakdown" -> get_region_service_breakdown_query(g)
      [] o = "get_aws_resource_usage" -> get_aws_resource_usage_query(g)

\* no billing call was made
NoQuery == [Granularity |-> None, Metrics |-> <<>>, GroupBy |-> <<>>]

\* The values of the granularity argument of operation o: only
\* get_aws_cost_and_usage has one, "MONTHLY" when the caller gives none
GranularitiesOf(o) == IF o = "get_aws_cost_and_usage" THEN Granularities ELSE { None }

DefaultGranularity(o) == IF o = "get_aws_cost_and_usage" THEN "MONTHLY" ELSE None

-----------------------------------------------------------------------------
(* Raw grouped reports: what client.get_cost_and_usage answers.            *)
(* A report is response['ResultsByTime']: a sequence of time buckets       *)
(*   [Start, End, Total, Groups], Total the bucket's metric total in mills,*)
(* and a group is [Keys, Amount, UsageQuantity, Unit], Amount the cost     *)
(* metric in mills, UsageQuantity in thousandths of the unit.              *)

Group(keys, amount, usage, unit) ==
    [Keys |-> keys, Amount |-> amount, UsageQuantity |-> usage, Unit |-> unit]

\* Buckets of a query without GroupBy (get_aws_daily_usage, get_daily_cost)
TotalBuckets ==
    { [Start |-> "2024-01-01", End |-> "2024-01-02", Total |-> 10004, Groups |-> <<>>],
      [Start |-> "2024-01-02", End |-> "2024-01-03", Total |-> 2506, Groups |-> <<>>] }

\* Buckets of a query grouped by REGION, SERVICE
RegionServiceBuckets ==
    { [Start |-> "2024-01-01", End |-> "2024-02-01", Total |-> 0,
       Groups |-> << Group(<<"us-east-1", "EC2">>, 10004, 0, ""),
                     Group(<<"eu-west-1", "S3">>, 2506, 0, "") >>],
      [Start |-> "2024-02-01", End |-> "2024-03-01", Total |-> 0,
       Groups |-> << Group(<<"us-east-1", "EC2">>, 10004, 0, "") >>] }

\* Buckets of a query grouped by SERVICE
ServiceBuckets ==
    { [b EXCEPT !.Groups = [i \in 1..Len(b.Groups) |->
                               [b.Groups[i] EXCEPT !.Keys = << b.Groups[i].Keys[2] >>]]]
        : b \in RegionServiceBuckets }

\* Buckets of a query grouped by REGION
RegionBuckets ==
    { [b EXCEPT !.Groups = [i \in 1..Len(b.Groups) |->
                               [b.Groups[i] EXCEPT !.Keys = << b.Groups[i].Keys[1] >>]]]
        : b \in RegionServiceBuckets }

\* A usage type is a string, written as the sequence of its pieces: ":" is
\* the colon character, every other piece is a run of characters without a
\* colon. "USW2-EBS:VolumeUsage" is << "USW2-EBS", ":", "VolumeUsage" >>.
VolumeUsageUSW2 == << "USW2-EBS", ":", "VolumeUsage" >>
VolumeUsageEUW1 == << "EUW1-EBS", ":", "VolumeUsage" >>
RequestsTier1 == << "Requests-Tier1" >>

\* Buckets of a query grouped by SERVICE, USAGE_TYPE with both metrics
UsageBuckets ==
    { [Start |-> "2024-01-01", End |-> "2024-02-01", Total |-> 0,
       Groups |-> << Group(<<"EC2", VolumeUsageUSW2>>, 2506, 30008, "GB-Mo"),
                     Group(<<"S3", RequestsTier1>>, 0, 0, "Requests") >>],
      [Start |-> "2024-02-01", End |-> "2024-03-01", Total |-> 0,
       Groups |-> << Group(<<"EC2", VolumeUsageEUW1>>, 10004, 0, "GB-Mo") >>] }

RECURSIVE SeqsUpTo(_, _)
\* the sequences over S of length at most n
SeqsUpTo(S, n) ==
    IF n = 0 THEN { <<>> }
    ELSE LET shorter == SeqsUpTo(S, n - 1)
         IN  shorter \cup { Append(q, x) : q \in { r \in shorter : Len(r) = n - 1 }, x \in S }

\* A response whose shape makes the reshaping code raise
Malformed == << [Malformed |-> TRUE] >>

IsMalformed(results_by_time) ==
    results_by_time # <<>> /\ "Malformed" \in DOMAIN results_by_time[1]

\* The well-formed reports the provider may answer to operation o's query
ReportsFor(o) ==
    CASE o = "get_aws_cost_and_usage" -> SeqsUpTo(RegionServiceBuckets, MaxBuckets)
      [] o = "get_aws_daily_usage" -> SeqsUpTo(TotalBuckets, MaxBuckets)
      [] o = "get_daily_cost" -> SeqsUpTo(TotalBuckets, MaxBuckets)
      [] o = "get_service_cost" -> SeqsUpTo(ServiceBuckets, MaxBuckets)
      [] o = "get_region_cost" -> SeqsUpTo(RegionBuckets, MaxBuckets)
      [] o = "get_region_service_breakdown" -> SeqsUpTo(RegionServiceBuckets, MaxBuckets)
      [] o = "get_aws_resource_usage" -> SeqsUpTo(UsageBuckets, MaxBuckets)

-----------------------------------------------------------------------------
(* Bounded families of raw reports, for the properties of the reshapers.   *)
(* A report has a bucket for each period between two of Days and at most   *)
(* MaxGroups groups in all; within one bucket no group key occurs twice,   *)
(* as the provider answers.                                                *)

\* Amounts in mills: 0.375 and 1.125 are ties of round(x, 2) that a float
\* holds exactly, 10.004 rounds down where twice it rounds up
Amounts == { 375, 10004 }

RegionNames == { "us-east-1", "eu-west-1", "ap-south-1" }

ServiceNames == { "EC2", "S3" }

\* the start of the bucket at position i is Days[i], its end Days[i + 1]
Days == << "2024-01-01", "2024-02-01", "2024-03-01" >>

\* usage quantity and cost of a usage group: both zero, one zero, none zero
UsageMetrics == { <<0, 0>>, <<0, 375>>, <<10004, 0>>, <<10004, 375>> }

\* the usage types of each service, with their unit
UsageKeys ==
    { <<"EC2", VolumeUsageUSW2, "GB-Mo">>, <<"EC2", VolumeUsageEUW1, "GB-Mo">>,
      <<"S3", RequestsTier1, "Requests">> }

\* The groups a bucket of operation o's query may hold
GroupKinds(o) ==
    CASE o \in { "get_aws_cost_and_usage", "get_region_service_breakdown" } ->
            { Group(<<r, s>>, a, 0, "") : r \in RegionNames, s \in ServiceNames, a \in Amounts }
      [] o = "get_service_cost" ->
            { Group(<<s>>, a, 0, "") : s \in ServiceNames, a \in Amounts }
      [] o = "get_region_cost" ->
            { Group(<<r>>, a, 0, "") : r \in RegionNames, a \in Amounts }
      [] o = "get_aws_resource_usage" ->
            { Group(<<k[1], k[2]>>, m[2], m[1], k[3]) : k \in UsageKeys, m \in UsageMetrics }
      [] OTHER -> {}

\* The totals a bucket of an ungrouped query may hold
TotalKinds(o) ==
    IF o \in { "get_aws_daily_usage", "get_daily_cost" } THEN Amounts \cup { 0 } ELSE { 0 }

\* The pieces a usage type is written with
Pieces == { "EBS", "VolumeUsage", ":" }

RECURSIVE UsageTypesUpTo(_)
\* the usage types of at most n pieces
UsageTypesUpTo(n) ==
    IF n = 0 THEN { <<>> }
    ELSE LET shorter == UsageTypesUpTo(n - 1)
         IN  shorter \cup { Append(u, x) : u \in { v \in shorter : Len(v) = n - 1 },
                                            x \in Pieces }

\* Failures of the billing call: botocore ClientError with the provider's
\* code, or another exception (no connection)
ProviderErrors ==
    { [type |-> "ClientError", code |-> "InvalidClientTokenId", message |-> "invalid token"],
      [type |-> "ClientError", code |-> "AccessDeniedException", message |-> "not authorized"],
      [type |-> "EndpointConnectionError", code |-> None, message |-> "could not connect"],
      [type |-> "ClientError", code |-> "UnrecognizedClientException", message |-> "invalid token"],
      [type |-> "ClientError", code |-> "AuthFailure", message |-> "not validated"],
      [type |-> "ClientError", code |-> "InvalidAccessKeyId", message |-> "no such key"],
      [type |-> "ClientError", code |-> "SignatureDoesNotMatch", message |-> "bad signature"],
      [type |-> "ClientError", code |-> "ThrottlingException", message |-> "rate exceeded"] }

\* What reshaping a malformed response raises
ReshapeError == [type |-> "KeyError", code |-> None, message |-> "TimePeriod"]

-----------------------------------------------------------------------------
(* Arithmetic of the reshapers *)

\* round(x, 2): mills to cents, to the nearest cent, a tie to the even cent
Round2(m) ==
    LET q == m \div 10
        r == m % 10
    IN  IF r < 5 THEN q
        ELSE IF r > 5 THEN q + 1
        ELSE IF q % 2 = 0 THEN q ELSE q + 1

RECURSIVE SumAmounts(_)
\* the sum of the cost amounts of a sequence of groups
SumAmounts(groups) ==
    IF groups = <<>> THEN 0 ELSE groups[1].Amount + SumAmounts(Tail(groups))

RECURSIVE SumUsage(_)
\* the sum of the usage quantities of a sequence of groups
SumUsage(groups) ==
    IF groups = <<>> THEN 0 ELSE groups[1].UsageQuantity + SumUsage(Tail(groups))

RECURSIVE AllGroups(_)
\* for result in results_by_time: for group in result.get('Groups', []):
\* the groups in the order the loops visit them
AllGroups(results_by_time) ==
    IF results_by_time = <<>> THEN <<>>
    ELSE results_by_time[1].Groups \o AllGroups(Tail(results_by_time))

\* the elements of a sequence
Range(q) == { q[i] : i \in 1..Len(q) }

RECURSIVE Distinct(_)
\* the distinct elements of a sequence in the order of their first occurrence
\* (the insertion order of a dict's keys)
Distinct(q) ==
    IF q = <<>> THEN <<>>
    ELSE LET front == Distinct(SubSeq(q, 1, Len(q) - 1))
             x == q[Len(q)]
         IN  IF x \in Range(front) THEN front ELSE Append(front, x)

\* keys[1] if len(keys) > 1 else "Unknown"
SecondKey(keys) == IF Len(keys) > 1 THEN keys[2] ELSE "Unknown"

\* the empty dict
EmptyDict == [k \in {} |-> 0]

-----------------------------------------------------------------------------
(* The reshapers: the success path of each operation *)

RECURSIVE SumRoundedAmounts(_)
\* the sum of the cost amounts of a sequence of groups, each rounded to cents
SumRoundedAmounts(groups) ==
    IF groups = <<>> THEN 0 ELSE Round2(groups[1].Amount) + SumRoundedAmounts(Tail(groups))

\* Variant of format_aws_response_detailed: every group's amount is rounded
\* before it is added to the region's total and to the region's service
format_aws_response_detailed_round_each(results_by_time) ==
    IF results_by_time = <<>>
    THEN [total_cost |-> 0, regions |-> EmptyDict, consolidated |-> EmptyDict,
          period |-> [start |-> "", end |-> ""]]
    ELSE
    LET groups == AllGroups(results_by_time)
        of_region(r) == SelectSeq(groups, LAMBDA g : g.Keys[1] = r)
        of_service(s) == SelectSeq(groups, LAMBDA g : SecondKey(g.Keys) = s)
        of_both(r, s) == SelectSeq(groups, LAMBDA g : g.Keys[1] = r /\ SecondKey(g.Keys) = s)
    IN  [total_cost |-> Round2(SumAmounts(groups)),
         regions |->
            [r \in { g.Keys[1] : g \in Range(groups) } |->
                [total |-> SumRoundedAmounts(of_region(r)),
                 services |->
                    [s \in { SecondKey(g.Keys) : g \in Range(of_region(r)) } |->
                        SumRoundedAmounts(of_both(r, s))]]],
         consolidated |->
            [s \in { SecondKey(g.Keys) : g \in Range(groups) } |->
                [total |-> Round2(SumAmounts(of_service(s)))]],
         period |-> [start |-> results_by_time[1].Start,
                     end |-> results_by_time[Len(results_by_time)].End]]

\* Variant of format_aws_response_detailed: a region's total is the sum of
\* its rounded service entries
format_aws_response_detailed_total_of_rounded(results_by_time) ==
    IF results_by_time = <<>>
    THEN [total_cost |-> 0, regions |-> EmptyDict, consolidated |-> EmptyDict,
          period |-> [start |-> "", end |-> ""]]
    ELSE
    LET groups == AllGroups(results_by_time)
        of_region(r) == SelectSeq(groups, LAMBDA g : g.Keys[1] = r)
        of_service(s) == SelectSeq(groups, LAMBDA g : SecondKey(g.Keys) = s)
        of_both(r, s) == SelectSeq(groups, LAMBDA g : g.Keys[1] = r /\ SecondKey(g.Keys) = s)
        services(r) == Distinct([i \in 1..Len(of_region(r)) |-> SecondKey(of_region(r)[i].Keys)])
        rounded(r) == [i \in 1..Len(services(r)) |->
                          [Amount |-> 10 * Round2(SumAmounts(of_both(r, services(r)[i])))]]
    IN  [total_cost |-> Round2(SumAmounts(groups)),
         regions |->
            [r \in { g.Keys[1] : g \in Range(groups) } |->
                [total |-> Round2(SumAmounts(rounded(r))),
                 services |->
                    [s \in { SecondKey(g.Keys) : g \in Range(of_region(r)) } |->
                        Round2(SumAmounts(of_both(r, s)))]]],
         consolidated |->
            [s \in { SecondKey(g.Keys) : g \in Range(groups) } |->
                [total |-> Round2(SumAmounts(of_service(s)))]],
         period |-> [start |-> results_by_time[1].Start,
                     end |-> results_by_time[Len(results_by_time)].End]]

\* Variant of format_aws_response_detailed: the period ends with the end of
\* the first bucket
format_aws_response_detailed_first_bucket_period(results_by_time) ==
    IF results_by_time = <<>>
    THEN [total_cost |-> 0, regions |-> EmptyDict, consolidated |-> EmptyDict,
          period |-> [start |-> "", end |-> ""]]
    ELSE
    LET groups == AllGroups(results_by_time)
        of_region(r) == SelectSeq(groups, LAMBDA g : g.Keys[1] = r)
        of_service(s) == SelectSeq(groups, LAMBDA g : SecondKey(g.Keys) = s)
        of_both(r, s) == SelectSeq(groups, LAMBDA g : g.Keys[1] = r /\ SecondKey(g.Keys) = s)
    IN  [total_cost |-> Round2(SumAmounts(groups)),
         regions |->
            [r \in { g.Keys[1] : g \in Range(groups) } |->
                [total |-> Round2(SumAmounts(of_region(r))),
                 services |->
                    [s \in { SecondKey(g.Keys) : g \in Range(of_region(r)) } |->
                        Round2(SumAmounts(of_both(r, s)))]]],
         consolidated |->
            [s \in { SecondKey(g.Keys) : g \in Range(groups) } |->
                [total |-> Round2(SumAmounts(of_service(s)))]],
         period |-> [start |-> results_by_time[1].Start,
                     end |-> results_by_time[1].End]]

\* Variant of format_aws_response_detailed: a service's consolidated total
\* is the sum of its rounded entries of the regions
format_aws_response_detailed_consolidated_of_rounded(results_by_time) ==
    IF results_by_time = <<>>
    THEN [total_cost |-> 0, regions |-> EmptyDict, consolidated |-> EmptyDict,
          period |-> [start |-> "", end |-> ""]]
    ELSE
    LET groups == AllGroups(results_by_time)
        of_region(r) == SelectSeq(groups, LAMBDA g : g.Keys[1] = r)
        of_service(s) == SelectSeq(groups, LAMBDA g : SecondKey(g.Keys) = s)
        of_both(r, s) == SelectSeq(groups, LAMBDA g : g.Keys[1] = r /\ SecondKey(g.Keys) = s)
        regions(s) == Distinct([i \in 1..Len(of_service(s)) |-> of_service(s)[i].Keys[1]])
        rounded(s) == [i \in 1..Len(regions(s)) |->
                          [Amount |-> 10 * Round2(SumAmounts(of_both(regions(s)[i], s)))]]
    IN  [total_cost |-> Round2(SumAmounts(groups)),
         regions |->
            [r \in { g.Keys[1] : g \in Range(groups) } |->
                [total |-> Round2(SumAmounts(of_region(r))),
                 services |->
                    [s \in { SecondKey(g.Keys) : g \in Range(of_region(r)) } |->
                        Round2(SumAmounts(of_both(r, s)))]]],
         consolidated |->
            [s \in { SecondKey(g.Keys) : g \in Range(groups) } |->
                [total |-> Round2(SumAmounts(rounded(s)))]],
         period |-> [start |-> results_by_time[1].Start,
                     end |-> results_by_time[Len(results_by_time)].End]]

format_aws_response_detailed(results_by_time) ==
    IF results_by_time = <<>>
    THEN [total_cost |-> 0, regions |-> EmptyDict, consolidated |-> EmptyDict,
          period |-> [start |-> "", end |-> ""]]
    ELSE
    LET groups == AllGroups(results_by_time)
        of_region(r) == SelectSeq(groups, LAMBDA g : g.Keys[1] = r)
        of_service(s) == SelectSeq(groups, LAMBDA g : SecondKey(g.Keys) = s)
        of_both(r, s) == SelectSeq(groups, LAMBDA g : g.Keys[1] = r /\ SecondKey(g.Keys) = s)
    IN  [total_cost |-> Round2(SumAmounts(groups)),
         regions |->
            [r \in { g.Keys[1] : g \in Range(groups) } |->
                [total |-> Round2(SumAmounts(of_region(r))),
                 services |->
                    [s \in { SecondKey(g.Keys) : g \in Range(of_region(r)) } |->
                        Round2(SumAmounts(of_both(r, s)))]]],
         consolidated |->
            [s \in { SecondKey(g.Keys) : g \in Range(groups) } |->
                [total |-> Round2(SumAmounts(of_service(s)))]],
         period |-> [start |-> results_by_time[1].Start,
                     end |-> results_by_time[Len(results_by_time)].End]]

\* Variant of format_daily_usage: the first bucket is read
format_daily_usage_first_bucket(results) ==
    IF results # <<>>
    THEN LET latest == results[1]
         IN  [daily_cost |-> Round2(latest.Total)]
    ELSE [daily_cost |-> 0]

\* get_aws_daily_usage, lines 218-225
format_daily_usage(results) ==
    IF results # <<>>
    THEN LET latest == results[Len(results)]
         IN  [daily_cost |-> Round2(latest.Total)]
    ELSE [daily_cost |-> 0]

\* get_daily_cost, lines 280-291
format_daily_cost(results) ==
    [daily_costs |->
        [i \in 1..Len(results) |->
            [date |-> results[i].Start, cost |-> Round2(results[i].Total)]]]

\* get_service_cost, lines 349-371
format_service_cost(results) ==
    LET groups == AllGroups(results)
        of_service(s) == SelectSeq(groups, LAMBDA g : g.Keys[1] = s)
    IN  [services |-> [s \in { g.Keys[1] : g \in Range(groups) } |->
                          Round2(SumAmounts(of_service(s)))],
         total_cost |-> Round2(SumAmounts(groups))]

\* get_region_cost, lines 429-451
format_region_cost(results) ==
    LET groups == AllGroups(results)
        of_region(r) == SelectSeq(groups, LAMBDA g : g.Keys[1] = r)
    IN  [regions |-> [r \in { g.Keys[1] : g \in Range(groups) } |->
                         Round2(SumAmounts(of_region(r)))],
         total_cost |-> Round2(SumAmounts(groups))]

\* get_region_service_breakdown, lines 510-536: a service's entry is
\* assigned, not accumulated, so the last group of (region, service) stays
format_region_service_breakdown(results) ==
    LET groups == AllGroups(results)
        of_region(r) == SelectSeq(groups, LAMBDA g : g.Keys[1] = r)
        of_both(r, s) == SelectSeq(groups, LAMBDA g : g.Keys[1] = r /\ SecondKey(g.Keys) = s)
        last(q) == q[Len(q)]
    IN  [regions |->
            [r \in { g.Keys[1] : g \in Range(groups) } |->
                [total |-> Round2(SumAmounts(of_region(r))),
                 services |->
                    [s \in { SecondKey(g.Keys) : g \in Range(of_region(r)) } |->
                        Round2(last(of_both(r, s)).Amount)]]],
         total_cost |-> Round2(SumAmounts(groups))]

RECURSIVE Split(_)
\* usage_type.split(':'): the pieces between the colons, in order; a string
\* without a colon gives one piece, the string itself
Split(usage_type) ==
    IF usage_type = <<>> THEN << <<>> >>
    ELSE LET rest == Split(Tail(usage_type))
         IN  IF Head(usage_type) = ":"
             THEN << <<>> >> \o rest
             ELSE << << Head(usage_type) >> \o rest[1] >> \o Tail(rest)

\* Variant of Component: the piece after the first colon
Component_after_first_colon(usage_type) ==
    IF \E i \in 1..Len(usage_type) : usage_type[i] = ":"
    THEN Split(usage_type)[2]
    ELSE usage_type

\* usage_type.split(':')[-1] if ':' in usage_type else usage_type
Component(usage_type) ==
    IF \E i \in 1..Len(usage_type) : usage_type[i] = ":"
    THEN Split(usage_type)[Len(Split(usage_type))]
    ELSE usage_type

\* Variant of format_usage_response: a group is skipped when its usage
\* quantity or its cost is zero
format_usage_response_skip_any_zero(results_by_time) ==
    IF results_by_time = <<>>
    THEN [regions |-> EmptyDict, consolidated |-> EmptyDict,
          period |-> [start |-> "", end |-> ""]]
    ELSE
    LET region == "Global/Linked"
        kept == SelectSeq(AllGroups(results_by_time),
                          LAMBDA g : ~(g.UsageQuantity = 0 \/ g.Amount = 0))
        of_service(s) == SelectSeq(kept, LAMBDA g : g.Keys[1] = s)
        of_component(s, c) == SelectSeq(of_service(s), LAMBDA g : Component(g.Keys[2]) = c)
        services == { g.Keys[1] : g \in Range(kept) }
        record(g) == [component |-> Component(g.Keys[2]),
                      count |-> Round2(g.UsageQuantity),
                      cost |-> Round2(g.Amount),
                      unit |-> g.Unit]
        components(s) == Distinct([i \in 1..Len(of_service(s)) |->
                                      Component(of_service(s)[i].Keys[2])])
        total(s, c) == [component |-> c,
                        count |-> Round2(SumUsage(of_component(s, c))),
                        cost |-> Round2(SumAmounts(of_component(s, c))),
                        unit |-> of_component(s, c)[1].Unit]
    IN  [regions |->
            [r \in (IF kept = <<>> THEN {} ELSE { region }) |->
                [s \in services |->
                    [i \in 1..Len(of_service(s)) |-> record(of_service(s)[i])]]],
         consolidated |->
            [s \in services |->
                [i \in 1..Len(components(s)) |-> total(s, components(s)[i])]],
         period |-> [start |-> results_by_time[1].Start,
                     end |-> results_by_time[Len(results_by_time)].End]]

\* Variant of format_usage_response: the consolidated totals add the
\* rounded quantity and the rounded cost of every group
format_usage_response_sum_of_rounded(results_by_time) ==
    IF results_by_time = <<>>
    THEN [regions |-> EmptyDict, consolidated |-> EmptyDict,
          period |-> [start |-> "", end |-> ""]]
    ELSE
    LET region == "Global/Linked"
        kept == SelectSeq(AllGroups(results_by_time),
                          LAMBDA g : ~(g.UsageQuantity = 0 /\ g.Amount = 0))
        of_service(s) == SelectSeq(kept, LAMBDA g : g.Keys[1] = s)
        of_component(s, c) == SelectSeq(of_service(s), LAMBDA g : Component(g.Keys[2]) = c)
        services == { g.Keys[1] : g \in Range(kept) }
        record(g) == [component |-> Component(g.Keys[2]),
                      count |-> Round2(g.UsageQuantity),
                      cost |-> Round2(g.Amount),
                      unit |-> g.Unit]
        components(s) == Distinct([i \in 1..Len(of_service(s)) |->
                                      Component(of_service(s)[i].Keys[2])])
        rounded(q) == [i \in 1..Len(q) |->
                          [Amount |-> 10 * Round2(q[i].Amount),
                           UsageQuantity |-> 10 * Round2(q[i].UsageQuantity)]]
        total(s, c) == [component |-> c,
                        count |-> Round2(SumUsage(rounded(of_component(s, c)))),
                        cost |-> Round2(SumAmounts(rounded(of_component(s, c)))),
                        unit |-> of_component(s, c)[1].Unit]
    IN  [regions |->
            [r \in (IF kept = <<>> THEN {} ELSE { region }) |->
                [s \in services |->
                    [i \in 1..Len(of_service(s)) |-> record(of_service(s)[i])]]],
         consolidated |->
            [s \in services |->
                [i \in 1..Len(components(s)) |-> total(s, components(s)[i])]],
         period |-> [start |-> results_by_time[1].Start,
                     end |-> results_by_time[Len(results_by_time)].End]]

format_usage_response(results_by_time) ==
    IF results_by_time = <<>>
    THEN [regions |-> EmptyDict, consolidated |-> EmptyDict,
          period |-> [start |-> "", end |-> ""]]
    ELSE
    LET region == "Global/Linked"
        kept == SelectSeq(AllGroups(results_by_time),
                          LAMBDA g : ~(g.UsageQuantity = 0 /\ g.Amount = 0))
        of_service(s) == SelectSeq(kept, LAMBDA g : g.Keys[1] = s)
        of_component(s, c) == SelectSeq(of_service(s), LAMBDA g : Component(g.Keys[2]) = c)
        services == { g.Keys[1] : g \in Range(kept) }
        record(g) == [component |-> Component(g.Keys[2]),
                      count |-> Round2(g.UsageQuantity),
                      cost |-> Round2(g.Amount),
                      unit |-> g.Unit]
        components(s) == Distinct([i \in 1..Len(of_service(s)) |->
                                      Component(of_service(s)[i].Keys[2])])
        total(s, c) == [component |-> c,
                        count |-> Round2(SumUsage(of_component(s, c))),
                        cost |-> Round2(SumAmounts(of_component(s, c))),
                        unit |-> of_component(s, c)[1].Unit]
    IN  [regions |->
            [r \in (IF kept = <<>> THEN {} ELSE { region }) |->
                [s \in services |->
                    [i \in 1..Len(of_service(s)) |-> record(of_service(s)[i])]]],
         consolidated |->
            [s \in services |->
                [i \in 1..Len(components(s)) |-> total(s, components(s)[i])]],
         period |-> [start |-> results_by_time[1].Start,
                     end |-> results_by_time[Len(results_by_time)].End]]

\* The reshaper of operation o
Reshape(o, results_by_time) ==
    CASE o = "get_aws_cost_and_usage" -> format_aws_response_detailed(results_by_time)
      [] o = "get_aws_daily_usage" -> format_daily_usage(results_by_time)
      [] o = "get_daily_cost" -> format_daily_cost(results_by_time)
      [] o = "get_service_cost" -> format_service_cost(results_by_time)
      [] o = "get_region_cost" -> format_region_cost(results_by_time)
      [] o = "get_region_service_breakdown" -> format_region_service_breakdown(results_by_time)
      [] o = "get_aws_resource_usage" -> format_usage_response(results_by_time)

-----------------------------------------------------------------------------
(* The except clause of each operation's live path. It reads               *)
(* FALLBACK_TO_DEMO when it runs and either returns synthetic data or      *)
(* re-raises the exception it caught (raise e).                            *)

get_aws_cost_and_usage_except(err, e) ==
    IF FallbackToDemo(e) THEN UseSynthetic("generate_mock_data") ELSE Raise(err)

get_aws_daily_usage_except(err, e) ==
    IF FallbackToDemo(e) THEN UseSynthetic("inline_daily_cost") ELSE Raise(err)

\* Variant of the except clause of get_daily_cost: without fallback the
\* billing call is made once more, with the environment's credentials
get_daily_cost_except_retry(err, e) ==
    IF FallbackToDemo(e) THEN UseSynthetic("generate_mock_daily_cost")
    ELSE UseLive(EnvGet(e, "AWS_ACCESS_KEY_ID", None), EnvGet(e, "AWS_SECRET_ACCESS_KEY", None),
                 EnvGet(e, "AWS_REGION", "us-east-1"))

get_daily_cost_except(err, e) ==
    IF FallbackToDemo(e) THEN UseSynthetic("generate_mock_daily_cost") ELSE Raise(err)

get_service_cost_except(err, e) ==
    IF FallbackToDemo(e) THEN UseSynthetic("generate_mock_service_cost") ELSE Raise(err)

get_region_cost_except(err, e) ==
    IF FallbackToDemo(e) THEN UseSynthetic("generate_mock_region_cost") ELSE Raise(err)

\* Variant of the except clause of get_region_service_breakdown: a new
\* exception is raised from the message of the one caught
get_region_service_breakdown_except_wrap(err, e) ==
    IF FallbackToDemo(e) THEN UseSynthetic("generate_mock_region_service_breakdown")
    ELSE Raise([type |-> "Exception", code |-> None, message |-> err.message])

get_region_service_breakdown_except(err, e) ==
    IF FallbackToDemo(e) THEN UseSynthetic("generate_mock_region_service_breakdown") ELSE Raise(err)

get_aws_resource_usage_except(err, e) ==
    IF FallbackToDemo(e) THEN UseSynthetic("generate_mock_usage_data") ELSE Raise(err)

\* The except clause of operation o
Except(o, err, e) ==
    CASE o = "get_aws_cost_and_usage" -> get_aws_cost_and_usage_except(err, e)
      [] o = "get_aws_daily_usage" -> get_aws_daily_usage_except(err, e)
      [] o = "get_daily_cost" -> get_daily_cost_except(err, e)
      [] o = "get_service_cost" -> get_service_cost_except(err, e)
      [] o = "get_region_cost" -> get_region_cost_except(err, e)
      [] o = "get_region_service_breakdown" -> get_region_service_breakdown_except(err, e)
      [] o = "get_aws_resource_usage" -> get_aws_resource_usage_except(err, e)

-----------------------------------------------------------------------------
(* The rest of each operation's try block, from the provider's answer on:  *)
(* the answer is reshaped and returned; when reshaping raises, the except  *)
(* clause runs.                                                            *)

\* Variant of the try block of get_aws_cost_and_usage: the period is read
\* from results_by_time[0] without the test for an empty report
get_aws_cost_and_usage_try_no_empty_test(results_by_time, e) ==
    IF IsMalformed(results_by_time)
    THEN get_aws_cost_and_usage_except(ReshapeError, e)
    ELSE IF results_by_time = <<>>
    THEN get_aws_cost_and_usage_except(
             [type |-> "IndexError", code |-> None, message |-> "list index out of range"], e)
    ELSE ReturnLive(format_aws_response_detailed(results_by_time))

get_aws_cost_and_usage_try(results_by_time, e) ==
    IF IsMalformed(results_by_time)
    THEN get_aws_cost_and_usage_except(ReshapeError, e)
    ELSE ReturnLive(format_aws_response_detailed(results_by_time))

\* Variant of the try block of get_aws_daily_usage: with FALLBACK_TO_DEMO
\* on, synthetic data is returned although the billing call succeeded
get_aws_daily_usage_try_demo_first(results_by_time, e) ==
    IF IsMalformed(results_by_time)
    THEN get_aws_daily_usage_except(ReshapeError, e)
    ELSE IF FallbackToDemo(e) THEN UseSynthetic("inline_daily_cost")
    ELSE ReturnLive(format_daily_usage(results_by_time))

get_aws_daily_usage_try(results_by_time, e) ==
    IF IsMalformed(results_by_time)
    THEN get_aws_daily_usage_except(ReshapeError, e)
    ELSE ReturnLive(format_daily_usage(results_by_time))

get_daily_cost_try(results_by_time, e) ==
    IF IsMalformed(results_by_time)
    THEN get_daily_cost_except(ReshapeError, e)
    ELSE ReturnLive(format_daily_cost(results_by_time))

get_service_cost_try(results_by_time, e) ==
    IF IsMalformed(results_by_time)
    THEN get_service_cost_except(ReshapeError, e)
    ELSE ReturnLive(format_service_cost(results_by_time))

get_region_cost_try(results_by_time, e) ==
    IF IsMalformed(results_by_time)
    THEN get_region_cost_except(ReshapeError, e)
    ELSE ReturnLive(format_region_cost(results_by_time))

get_region_service_breakdown_try(results_by_time, e) ==
    IF IsMalformed(results_by_time)
    THEN get_region_service_breakdown_except(ReshapeError, e)
    ELSE ReturnLive(format_region_service_breakdown(results_by_time))

get_aws_resource_usage_try(results_by_time, e) ==
    IF IsMalformed(results_by_time)
    THEN get_aws_resource_usage_except(ReshapeError, e)
    ELSE ReturnLive(format_usage_response(results_by_time))

\* The rest of the try block of operation o
Try(o, results_by_time, e) ==
    CASE o = "get_aws_cost_and_usage" -> get_aws_cost_and_usage_try(results_by_time, e)
      [] o = "get_aws_daily_usage" -> get_aws_daily_usage_try(results_by_time, e)
      [] o = "get_daily_cost" -> get_daily_cost_try(results_by_time, e)
      [] o = "get_service_cost" -> get_service_cost_try(results_by_time, e)
      [] o = "get_region_cost" -> get_region_cost_try(results_by_time, e)
      [] o = "get_region_service_breakdown" -> get_region_service_breakdown_try(results_by_time, e)
      [] o = "get_aws_resource_usage" -> get_aws_resource_usage_try(results_by_time, e)

-----------------------------------------------------------------------------
(* Outcomes of an operation *)

NoResult ==
    [kind |-> "none", source |-> "none", generator |-> None, data |-> NoData, error |-> NoError]

NoResponse == [kind |-> "none", report |-> <<>>, error |-> NoError]

NoContext == [access_key |-> None, secret_key |-> None, force_demo |-> FALSE]

NoHttp == [status |-> 0, body |-> NoData, source |-> "none", daily_source |-> "none"]

\* The value a synthetic generator returns: its amounts are random, the
\* value stands for any of them
SyntheticData(generator) == [synthetic |-> generator]

-----------------------------------------------------------------------------
(* Dates and the time period of each operation's billing call. A date is   *)
(* its year, month and day, which strftime('%Y-%m-%d') writes in this      *)
(* order, zero-padded, so that the order of the strings is the order of    *)
(* the dates.                                                              *)

Date(year, month, day) == [year |-> year, month |-> month, day |-> day]

\* no date
NoDate == Date(0, 0, 0)

Leap(year) == (year % 4 = 0 /\ year % 100 # 0) \/ year % 400 = 0

DaysIn(year, month) ==
    IF month = 2 THEN (IF Leap(year) THEN 29 ELSE 28)
    ELSE IF month \in {4, 6, 9, 11} THEN 30 ELSE 31

\* date - timedelta(days=1)
Yesterday(date) ==
    IF date.day > 1 THEN Date(date.year, date.month, date.day - 1)
    ELSE IF date.month > 1
         THEN Date(date.year, date.month - 1, DaysIn(date.year, date.month - 1))
         ELSE Date(date.year - 1, 12, 31)

\* date - timedelta(days=n)
RECURSIVE MinusDays(_, _)
MinusDays(date, n) == IF n = 0 THEN date ELSE MinusDays(Yesterday(date), n - 1)

\* datetime(date.year, date.month, 1)
FirstOfMonth(date) == Date(date.year, date.month, 1)

\* date a is earlier than date b
Before(a, b) ==
    \/ a.year < b.year
    \/ a.year = b.year /\ a.month < b.month
    \/ a.year = b.year /\ a.month = b.month /\ a.day < b.day

\* The dates of the calls: the first day of a year, the last day of a
\* February and the first day of a March
Clock == { Date(2024, 1, 1), Date(2024, 2, 29), Date(2024, 3, 1) }

\* The values of the arguments start_date and end_date of the operations
\* that have them
CallerDates ==
    { [start_date |-> Date(2024, 1, 1), end_date |-> Date(2024, 2, 1)],
      [start_date |-> Date(2024, 2, 1), end_date |-> Date(2024, 2, 1)] }

NoDates == [start_date |-> NoDate, end_date |-> NoDate]

\* Only get_aws_cost_and_usage and get_aws_resource_usage have the
\* arguments start_date and end_date
DatesOf(o) ==
    IF o \in { "get_aws_cost_and_usage", "get_aws_resource_usage" }
    THEN CallerDates ELSE { NoDates }

DefaultDates(o) ==
    IF o \in { "get_aws_cost_and_usage", "get_aws_resource_usage" }
    THEN [start_date |-> Date(2024, 1, 1), end_date |-> Date(2024, 2, 1)]
    ELSE NoDates

get_aws_cost_and_usage_period(start_date, end_date, now) ==
    [Start |-> start_date, End |-> end_date]

get_aws_daily_usage_period(start_date, end_date, now) ==
    [Start |-> MinusDays(now, 2), End |-> now]

get_daily_cost_period(start_date, end_date, now) ==
    [Start |-> MinusDays(now, 7), End |-> now]

get_service_cost_period(start_date, end_date, now) ==
    [Start |-> FirstOfMonth(now), End |-> now]

get_region_cost_period(start_date, end_date, now) ==
    [Start |-> FirstOfMonth(now), End |-> now]

get_region_service_breakdown_period(start_date, end_date, now) ==
    [Start |-> FirstOfMonth(now), End |-> now]

get_aws_resource_usage_period(start_date, end_date, now) ==
    [Start |-> start_date, End |-> end_date]

\* The time period operation o asks for when called with start_date and
\* end_date on the date now
TimePeriod(o, start_date, end_date, now) ==
    CASE o = "get_aws_cost_and_usage" -> get_aws_cost_and_usage_period(start_date, end_date, now)
      [] o = "get_aws_daily_usage" -> get_aws_daily_usage_period(start_date, end_date, now)
      [] o = "get_daily_cost" -> get_daily_cost_period(start_date, end_date, now)
      [] o = "get_service_cost" -> get_service_cost_period(start_date, end_date, now)
      [] o = "get_region_cost" -> get_region_cost_period(start_date, end_date, now)
      [] o = "get_region_service_breakdown" ->
            get_region_service_breakdown_period(start_date, end_date, now)
      [] o = "get_aws_resource_usage" -> get_aws_resource_usage_period(start_date, end_date, now)

\* no billing call was made
NoPeriod == [Start |-> NoDate, End |-> NoDate]

-----------------------------------------------------------------------------
(* Init and the steps of a call *)

Init ==
    /\ env \in Environments
    /\ pc = "idle"
    /\ caller = "none"
    /\ op = "none"
    /\ ctx = NoContext
    /\ granularity = None
    /\ query = NoQuery
    /\ client = NoClient
    /\ liveCalls = 0
    /\ genCalls = 0
    /\ response = NoResponse
    /\ result = NoResult
    /\ first = NoResult
    /\ http = NoHttp
    /\ today \in Clock
    /\ dates = NoDates
    /\ period = NoPeriod
    /\ atCall = env

\* The current operation's code ran up to d, having made live billing calls
\* and gen generator calls before: a generator call or a billing call is
\* counted, the operation returns, raises, or is suspended in the billing call
Run(d, live, gen) ==
    /\ liveCalls' = IF d.kind = "live" THEN live + 1 ELSE live
    /\ genCalls' = IF d.kind = "synthetic" THEN gen + 1 ELSE gen
    /\ client' = IF d.kind = "live" THEN d.client ELSE client
    /\ result' = CASE d.kind = "synthetic" ->
                        [kind |-> "return", source |-> "synthetic", generator |-> d.generator,
                         data |-> SyntheticData(d.generator), error |-> NoError]
                   [] d.kind = "return" ->
                        [kind |-> "return", source |-> "live", generator |-> None,
                         data |-> d.data, error |-> NoError]
                   [] d.kind = "raise" ->
                        [kind |-> "raise", source |-> "none", generator |-> None,
                         data |-> NoData, error |-> d.error]
                   [] d.kind = "live" -> NoResult
    /\ pc' = IF d.kind = "live" THEN "live" ELSE "done"

\* Operation o is entered with its arguments
Enter(o, access_key, secret_key, force_demo, g) ==
    /\ op' = o
    /\ granularity' = g
    /\ query' = IF Resolve(o, access_key, secret_key, force_demo, env).kind = "live"
                THEN Query(o, g) ELSE NoQuery
    /\ ctx' = [access_key |-> access_key, secret_key |-> secret_key,
               force_demo |-> force_demo]
    /\ response' = NoResponse
    /\ atCall' = env
    /\ Run(Resolve(o, access_key, secret_key, force_demo, env), 0, 0)

\* The operation entered has the arguments start_date and end_date; when it
\* goes on to its billing call, it passes the time period of its report
Dated(start_date, end_date) ==
    /\ dates' = [start_date |-> start_date, end_date |-> end_date]
    /\ period' = IF pc' = "live"
                 THEN TimePeriod(op', start_date, end_date, today)
                 ELSE NoPeriod
    /\ today' = today

\* A caller calls one of the facade's operations
Invoke ==
    /\ pc = "idle"
    /\ \E o \in Operations, access_key \in CallerAccessKeys,
          secret_key \in CallerSecretKeys, force_demo \in BOOLEAN :
            \E g \in GranularitiesOf(o), d \in DatesOf(o) :
                /\ Enter(o, access_key, secret_key, force_demo, g)
                /\ Dated(d.start_date, d.end_date)
    /\ caller' = "direct"
    /\ UNCHANGED <<env, first, http>>

\* The billing call answers report: the rest of the try block runs
Answers(report) ==
    /\ response' = [kind |-> "report", report |-> report,
                    error |-> IF IsMalformed(report) THEN ReshapeError ELSE NoError]
    /\ Run(Try(op, report, env), liveCalls, genCalls)
    /\ UNCHANGED <<env, caller, op, ctx, granularity, query, today, dates, period, atCall, first, http>>

\* The billing call answers: a well-formed report, or a response the
\* reshaping code raises on
LiveAnswers ==
    /\ pc = "live"
    /\ \E report \in ReportsFor(op) \cup { Malformed } : Answers(report)

\* The billing call raises
LiveRaises ==
    /\ pc = "live"
    /\ \E err \in ProviderErrors :
        /\ response' = [kind |-> "error", report |-> <<>>, error |-> err]
        /\ Run(Except(op, err, env), liveCalls, genCalls)
    /\ UNCHANGED <<env, caller, op, ctx, granularity, query, today, dates, period, atCall, first, http>>

-----------------------------------------------------------------------------
(* The /api/billing endpoint *)

\* The status of the HTTPException get_billing raises for err
StatusOf(err) ==
    IF err.type = "ClientError"
    THEN IF err.code \in { "UnrecognizedClientException", "InvalidClientTokenId",
                           "AuthFailure", "InvalidAccessKeyId", "SignatureDoesNotMatch" }
         THEN 401
         ELSE IF err.code = "AccessDeniedException" THEN 403 ELSE 500
    ELSE 500

\* The endpoint reads the headers and calls get_aws_cost_and_usage
get_billing ==
    /\ pc = "idle"
    /\ \E access_key \in CallerAccessKeys, secret_key \in CallerSecretKeys,
          header \in DemoHeaders, g \in Granularities, d \in CallerDates :
            LET use_demo == header = "true"
            IN  /\ Enter("get_aws_cost_and_usage", access_key, secret_key, use_demo, g)
                /\ Dated(d.start_date, d.end_date)
    /\ caller' = "get_billing"
    /\ UNCHANGED <<env, first, http>>

\* get_aws_cost_and_usage returned: the endpoint calls get_aws_daily_usage
\* with the same headers
get_billing_daily ==
    /\ pc = "done"
    /\ caller = "get_billing"
    /\ op = "get_aws_cost_and_usage"
    /\ result.kind = "return"
    /\ first' = result
    /\ Enter("get_aws_daily_usage", ctx.access_key, ctx.secret_key, ctx.force_demo, None)
    /\ Dated(NoDate, NoDate)
    /\ UNCHANGED <<env, caller, http>>

\* get_aws_daily_usage returned: data['daily_cost'] = daily_data['daily_cost']
\* and the endpoint answers data
get_billing_return ==
    /\ pc = "done"
    /\ caller = "get_billing"
    /\ op = "get_aws_daily_usage"
    /\ result.kind = "return"
    /\ http' = [status |-> 200,
                body |-> [data |-> first.data, daily_cost |-> result.data],
                source |-> first.source,
                daily_source |-> result.source]
    /\ pc' = "responded"
    /\ UNCHANGED <<env, caller, op, ctx, granularity, query, today, dates, period, atCall, client, liveCalls, genCalls, response,
                 result, first>>

\* Either operation raised: the endpoint answers an error status
get_billing_error ==
    /\ pc = "done"
    /\ caller = "get_billing"
    /\ result.kind = "raise"
    /\ http' = [status |-> StatusOf(result.error), body |-> NoData,
                source |-> "none", daily_source |-> "none"]
    /\ pc' = "responded"
    /\ UNCHANGED <<env, caller, op, ctx, granularity, query, today, dates, period, atCall, client, liveCalls, genCalls, response,
                 result, first>>

-----------------------------------------------------------------------------
(* The endpoints of one report: /daily-cost, /service-cost, /region-cost,  *)
(* /region-service-breakdown and /api/usage                                *)

ReportEndpoints ==
    { "get_daily_cost_endpoint", "get_service_cost_endpoint", "get_region_cost_endpoint",
      "get_region_service_breakdown_endpoint", "get_usage" }

\* The facade operation an endpoint calls
OperationOf(endpoint) ==
    CASE endpoint = "get_daily_cost_endpoint" -> "get_daily_cost"
      [] endpoint = "get_service_cost_endpoint" -> "get_service_cost"
      [] endpoint = "get_region_cost_endpoint" -> "get_region_cost"
      [] endpoint = "get_region_service_breakdown_endpoint" -> "get_region_service_breakdown"
      [] endpoint = "get_usage" -> "get_aws_resource_usage"

\* The status of the HTTPException each endpoint raises for err
get_daily_cost_endpoint_status(err) ==
    IF err.type = "ClientError"
    THEN IF err.code \in { "UnrecognizedClientException", "InvalidClientTokenId",
                           "AuthFailure", "InvalidAccessKeyId", "SignatureDoesNotMatch" }
         THEN 401
         ELSE IF err.code = "AccessDeniedException" THEN 403 ELSE 500
    ELSE 500

get_service_cost_endpoint_status(err) ==
    IF err.type = "ClientError"
    THEN IF err.code \in { "UnrecognizedClientException", "InvalidClientTokenId",
                           "AuthFailure", "InvalidAccessKeyId", "SignatureDoesNotMatch" }
         THEN 401
         ELSE IF err.code = "AccessDeniedException" THEN 403 ELSE 500
    ELSE 500

get_region_cost_endpoint_status(err) ==
    IF err.type = "ClientError"
    THEN IF err.code \in { "UnrecognizedClientException", "InvalidClientTokenId",
                           "AuthFailure", "InvalidAccessKeyId", "SignatureDoesNotMatch" }
         THEN 401
         ELSE IF err.code = "AccessDeniedException" THEN 403 ELSE 500
    ELSE 500

get_region_service_breakdown_endpoint_status(err) ==
    IF err.type = "ClientError"
    THEN IF err.code \in { "UnrecognizedClientException", "InvalidClientTokenId",
                           "AuthFailure", "InvalidAccessKeyId", "SignatureDoesNotMatch" }
         THEN 401
         ELSE IF err.code = "AccessDeniedException" THEN 403 ELSE 500
    ELSE 500

\* Variant of the status of get_usage: SignatureDoesNotMatch is not among
\* the codes answered with 401
get_usage_status_four_codes(err) ==
    IF err.type = "ClientError"
    THEN IF err.code \in { "UnrecognizedClientException", "InvalidClientTokenId",
                           "AuthFailure", "InvalidAccessKeyId" }
         THEN 401
         ELSE IF err.code = "AccessDeniedException" THEN 403 ELSE 500
    ELSE 500

get_usage_status(err) ==
    IF err.type = "ClientError"
    THEN IF err.code \in { "UnrecognizedClientException", "InvalidClientTokenId",
                           "AuthFailure", "InvalidAccessKeyId", "SignatureDoesNotMatch" }
         THEN 401
         ELSE IF err.code = "AccessDeniedException" THEN 403 ELSE 500
    ELSE 500

\* The status an endpoint of one report answers for err
Status(endpoint, err) ==
    CASE endpoint = "get_daily_cost_endpoint" -> get_daily_cost_endpoint_status(err)
      [] endpoint = "get_service_cost_endpoint" -> get_service_cost_endpoint_status(err)
      [] endpoint = "get_region_cost_endpoint" -> get_region_cost_endpoint_status(err)
      [] endpoint = "get_region_service_breakdown_endpoint" ->
            get_region_service_breakdown_endpoint_status(err)
      [] endpoint = "get_usage" -> get_usage_status(err)

\* An endpoint reads the headers and calls its operation
report_endpoint ==
    /\ pc = "idle"
    /\ \E endpoint \in ReportEndpoints, access_key \in CallerAccessKeys,
          secret_key \in CallerSecretKeys, header \in DemoHeaders :
            LET use_demo == header = "true"
            IN  \E d \in DatesOf(OperationOf(endpoint)) :
                    /\ Enter(OperationOf(endpoint), access_key, secret_key, use_demo, None)
                    /\ Dated(d.start_date, d.end_date)
                    /\ caller' = endpoint
    /\ UNCHANGED <<env, first, http>>

\* The operation returned: the endpoint answers its data
report_endpoint_return ==
    /\ pc = "done"
    /\ caller \in ReportEndpoints
    /\ result.kind = "return"
    /\ http' = [status |-> 200, body |-> result.data, source |-> result.source,
                daily_source |-> "none"]
    /\ pc' = "responded"
    /\ UNCHANGED <<env, caller, op, ctx, granularity, query, today, dates, period, atCall, client, liveCalls, genCalls, response,
                   result, first>>

\* The operation raised: the endpoint answers an error status
report_endpoint_error ==
    /\ pc = "done"
    /\ caller \in ReportEndpoints
    /\ result.kind = "raise"
    /\ http' = [status |-> Status(caller, result.error), body |-> NoData,
                source |-> "none", daily_source |-> "none"]
    /\ pc' = "responded"
    /\ UNCHANGED <<env, caller, op, ctx, granularity, query, today, dates, period, atCall, client, liveCalls, genCalls, response,
                   result, first>>

\* The call is over; nothing of it is kept
Finish ==
    /\ \/ pc = "done" /\ caller = "direct"
       \/ pc = "responded"
    /\ pc' = "idle"
    /\ caller' = "none"
    /\ op' = "none"
    /\ ctx' = NoContext
    /\ granularity' = None
    /\ query' = NoQuery
    /\ client' = NoClient
    /\ liveCalls' = 0
    /\ genCalls' = 0
    /\ response' = NoResponse
    /\ result' = NoResult
    /\ first' = NoResult
    /\ http' = NoHttp
    /\ dates' = NoDates
    /\ period' = NoPeriod
    /\ atCall' = env
    /\ UNCHANGED <<env, today>>

Next ==
    \/ Invoke
    \/ LiveAnswers
    \/ LiveRaises
    \/ get_billing
    \/ get_billing_daily
    \/ get_billing_return
    \/ get_billing_error
    \/ report_endpoint
    \/ report_endpoint_return
    \/ report_endpoint_error
    \/ Finish

Spec == Init /\ [][Next]_vars

-----------------------------------------------------------------------------
(* The reshapers on bounded families of raw reports: the credentials are   *)
(* the caller's, nothing is set in the environment, the billing call       *)
(* succeeds, and its answer is any report put together bucket by bucket    *)
(* and group by group.                                                     *)

UnsetEnvironment == [n \in EnvNames |-> None]

InitReshape ==
    /\ env = UnsetEnvironment
    /\ pc = "idle"
    /\ caller = "none"
    /\ op = "none"
    /\ ctx = NoContext
    /\ granularity = None
    /\ query = NoQuery
    /\ client = NoClient
    /\ liveCalls = 0
    /\ genCalls = 0
    /\ response = NoResponse
    /\ result = NoResult
    /\ first = NoResult
    /\ http = NoHttp
    /\ today = Date(2024, 2, 29)
    /\ dates = NoDates
    /\ period = NoPeriod
    /\ atCall = env

\* A caller calls one of the facade's operations with its own credentials
InvokeWithKeys ==
    /\ pc = "idle"
    /\ \E o \in Operations :
        /\ Enter(o, "AK", "SK", FALSE, DefaultGranularity(o))
        /\ Dated(DefaultDates(o).start_date, DefaultDates(o).end_date)
    /\ caller' = "direct"
    /\ UNCHANGED <<env, first, http>>

\* The answer the provider is preparing becomes report
Prepares(report) ==
    /\ response' = [kind |-> "pending", report |-> report, error |-> NoError]
    /\ UNCHANGED <<env, pc, caller, op, ctx, granularity, query, today, dates, period, atCall, client, liveCalls, genCalls, result,
                 first, http>>

\* The provider's answer gets its next bucket
ProviderBucket ==
    /\ pc = "live"
    /\ Len(response.report) + 1 < Len(Days)
    /\ \E t \in TotalKinds(op) :
        LET i == Len(response.report) + 1
        IN  Prepares(Append(response.report,
                            [Start |-> Days[i], End |-> Days[i + 1], Total |-> t,
                             Groups |-> <<>>]))

\* The last bucket of the provider's answer gets a group with a new key
ProviderGroup ==
    /\ pc = "live"
    /\ response.report # <<>>
    /\ Len(AllGroups(response.report)) < MaxGroups
    /\ LET n == Len(response.report)
           last == response.report[n].Groups
       IN  \E g \in GroupKinds(op) :
               /\ \A j \in 1..Len(last) : last[j].Keys # g.Keys
               /\ Prepares([response.report EXCEPT ![n].Groups = Append(last, g)])

\* The billing call answers what the provider prepared
ProviderAnswers ==
    /\ pc = "live"
    /\ Answers(response.report)

\* The billing call of get_aws_resource_usage answers one group of any
\* usage type
ProviderAnswersUsageType ==
    /\ pc = "live"
    /\ op = "get_aws_resource_usage"
    /\ response.kind = "none"
    /\ \E u \in UsageTypesUpTo(MaxPieces) :
        Answers(<< [Start |-> Days[1], End |-> Days[2], Total |-> 0,
                    Groups |-> << Group(<<"EC2", u>>, 375, 10004, "GB-Mo") >>] >>)

NextReshape ==
    \/ InvokeWithKeys
    \/ ProviderBucket
    \/ ProviderGroup
    \/ ProviderAnswers
    \/ ProviderAnswersUsageType
    \/ Finish

SpecReshape == InitReshape /\ [][NextReshape]_vars

-----------------------------------------------------------------------------
(* The calls in a process whose environment another actor assigns while a  *)
(* call is suspended in its billing call                                   *)

\* the most variables that differ from their values at the start of a call
MaxChanges == 1

\* the variables the fallback and the credentials are read from
ChangedNames == { "FALLBACK_TO_DEMO", "AWS_ACCESS_KEY_ID", "AWS_SECRET_ACCESS_KEY" }

\* the variables that are not what they were when the operation was entered
Changed == { n \in EnvNames : env[n] # atCall[n] }

\* Another actor of the process assigns or deletes os.environ[n] while the
\* operation waits for client.get_cost_and_usage
EnvironmentChanges ==
    /\ pc = "live"
    /\ Cardinality(Changed) < MaxChanges
    /\ \E n \in ChangedNames : \E v \in EnvValues(n) \ { env[n] } :
            env' = [env EXCEPT ![n] = v]
    /\ UNCHANGED <<pc, caller, op, ctx, granularity, query, today, dates, period, atCall, client,
                   liveCalls, genCalls, response, result, first, http>>

InitEnv ==
    /\ Init
    /\ today = Date(2024, 2, 29)

NextEnv ==
    \/ Next
    \/ EnvironmentChanges

SpecEnv == InitEnv /\ [][NextEnv]_vars

-----------------------------------------------------------------------------
(* The synthetic generators. An amount is round(random.uniform(lo, hi), 2) *)
(* in cents; the generators add such amounts, and the sum of amounts of    *)
(* whole cents, rounded to cents, is their sum. The main specification     *)
(* keeps of a generator's output only who made it; here a caller forces    *)
(* demo data and the output is built from the draws of random, taken from  *)
(* the two ends of each range. The lists of regions, services and          *)
(* components the generators loop over are cut to the ones named below.    *)

\* round(random.uniform(lo, hi), 2) in cents: the ends of the range
Uniform(lo, hi) == { lo, hi }

RECURSIVE Sum(_)
\* sum(d.values())
Sum(d) ==
    IF DOMAIN d = {} THEN 0
    ELSE LET k == CHOOSE x \in DOMAIN d : TRUE
         IN  d[k] + Sum([x \in DOMAIN d \ { k } |-> d[x]])

\* the first two of the five regions of generate_mock_data
MockRegions == { "us-east-1", "us-west-2" }

\* the services of generate_mock_data and generate_mock_region_service_breakdown
MockServices == { "Amazon EC2", "Amazon RDS", "Amazon S3", "AWS Lambda", "Amazon CloudFront" }

\* cost[<<region, service>>] is the draw of the inner loop, daily the draw of
\* data['daily_cost']
generate_mock_data(start_date, end_date, cost, daily) ==
    [total_cost |-> Sum([c \in MockRegions \X MockServices |-> cost[c]]),
     regions |->
        [r \in MockRegions |->
            [total |-> Sum([s \in MockServices |-> cost[<<r, s>>]]),
             services |-> [s \in MockServices |-> cost[<<r, s>>]]]],
     consolidated |->
        [s \in MockServices |-> [total |-> Sum([r \in MockRegions |-> cost[<<r, s>>]])]],
     period |-> [start |-> start_date, end |-> end_date],
     daily_cost |-> daily]

\* {"daily_cost": round(random.uniform(5, 30), 2)} of get_aws_daily_usage
inline_daily_cost(daily) == [daily_cost |-> daily]

\* cost[k] is the draw of the k-th day, the first being seven days before now
generate_mock_daily_cost(now, cost) ==
    [daily_costs |-> [k \in 1..7 |-> [date |-> MinusDays(now, 8 - k), cost |-> cost[k]]]]

generate_mock_service_cost(ec2, rds, s3, lambda, cloudfront, dynamodb, vpc) ==
    LET services == [s \in { "Amazon EC2", "Amazon RDS", "Amazon S3", "AWS Lambda",
                             "Amazon CloudFront", "Amazon DynamoDB", "Amazon VPC" } |->
                        CASE s = "Amazon EC2" -> ec2
                          [] s = "Amazon RDS" -> rds
                          [] s = "Amazon S3" -> s3
                          [] s = "AWS Lambda" -> lambda
                          [] s = "Amazon CloudFront" -> cloudfront
                          [] s = "Amazon DynamoDB" -> dynamodb
                          [] s = "Amazon VPC" -> vpc]
    IN  [services |-> services, total_cost |-> Sum(services)]

generate_mock_region_cost(use1, usw2, euw1, apse1, apne1, euc1) ==
    LET regions == [r \in { "us-east-1", "us-west-2", "eu-west-1", "ap-southeast-1",
                            "ap-northeast-1", "eu-central-1" } |->
                       CASE r = "us-east-1" -> use1
                         [] r = "us-west-2" -> usw2
                         [] r = "eu-west-1" -> euw1
                         [] r = "ap-southeast-1" -> apse1
                         [] r = "ap-northeast-1" -> apne1
                         [] r = "eu-central-1" -> euc1]
    IN  [regions |-> regions, total_cost |-> Sum(regions)]

\* the first two of the six regions of generate_mock_region_service_breakdown
MockBreakdownRegions == { "us-east-1", "us-west-2" }

\* random.sample(services, random.randint(3, 5)): the services selected
Selections == { S \in SUBSET MockServices : Cardinality(S) \in 3..5 }

\* selected[region] are the services sampled for the region,
\* cost[<<region, service>>] the draw of a selected service
generate_mock_region_service_breakdown(selected, cost) ==
    LET region_total(r) == Sum([s \in selected[r] |-> cost[<<r, s>>]])
    IN  [regions |->
            [r \in MockBreakdownRegions |->
                [total |-> region_total(r),
                 services |-> [s \in selected[r] |-> cost[<<r, s>>]]]],
         total_cost |-> Sum([r \in MockBreakdownRegions |-> region_total(r)])]

\* the first of the three regions of generate_mock_usage_data
MockUsageRegions == << "us-east-1" >>

\* components of generate_mock_usage_data, in pieces as the usage types
T3Medium == << "t3.medium" >>
EBSVolumeUsageGB == << "EBS", ":", "VolumeUsage", " (", "GB", ")" >>
StandardStorageGB == << "StandardStorage", " (", "GB", ")" >>

\* two of the four services of services_usage, with two of their components
services_usage ==
    [s \in { "Amazon EC2", "Amazon S3" } |->
        IF s = "Amazon EC2" THEN << T3Medium, EBSVolumeUsageGB >>
        ELSE << StandardStorageGB, RequestsTier1 >>]

\* random.sample(components, random.randint(1, len(components)))
Samples(components) ==
    { q \in SeqsUpTo(Range(components), Len(components)) :
        q # <<>> /\ \A i, j \in 1..Len(q) : i # j => q[i] # q[j] }

\* "Units" if "GB" not in comp else "GB"
UnitOf(comp) == IF "GB" \in Range(comp) THEN "GB" ELSE "Units"

\* sample[<<region, service>>] are the components picked for the service in
\* the region, count[comp] and cost[comp] the draws of a picked component
generate_mock_usage_data(start_date, end_date, sample, count, cost) ==
    LET records(r, s) ==
            [i \in 1..Len(sample[<<r, s>>]) |->
                LET comp == sample[<<r, s>>][i]
                IN  [component |-> comp, count |-> count[<<r, s, comp>>],
                     cost |-> cost[<<r, s, comp>>], unit |-> UnitOf(comp)]]
        all(s) == AllGroups([i \in 1..Len(MockUsageRegions) |->
                                [Groups |-> records(MockUsageRegions[i], s)]])
        components(s) == Distinct([i \in 1..Len(all(s)) |-> all(s)[i].component])
        of(s, comp) == SelectSeq(all(s), LAMBDA rec : rec.component = comp)
        total(s, comp) ==
            [component |-> comp,
             count |-> Sum([i \in 1..Len(of(s, comp)) |-> of(s, comp)[i].count]),
             cost |-> Sum([i \in 1..Len(of(s, comp)) |-> of(s, comp)[i].cost]),
             unit |-> UnitOf(comp)]
    IN  [regions |->
            [r \in Range(MockUsageRegions) |->
                [s \in DOMAIN services_usage |-> records(r, s)]],
         consolidated |->
            [s \in DOMAIN services_usage |->
                [i \in 1..Len(components(s)) |-> total(s, components(s)[i])]],
         period |-> [start |-> start_date, end |-> end_date]]

\* the places of the records generate_mock_usage_data may make
UsagePlaces ==
    { <<r, s, services_usage[s][i]>> :
        r \in Range(MockUsageRegions), s \in DOMAIN services_usage, i \in 1..2 }

\* A caller calls operation o with force_demo: the operation returns data,
\* the output of its generator
Synthetic(o, generator, data) ==
    /\ pc = "idle"
    /\ LET d == Resolve(o, None, None, TRUE, env)
       IN  /\ d.kind = "synthetic"
           /\ d.generator = generator
           /\ result' = [kind |-> "return", source |-> "synthetic", generator |-> generator,
                         data |-> data, error |-> NoError]
    /\ op' = o
    /\ granularity' = DefaultGranularity(o)
    /\ query' = NoQuery
    /\ ctx' = [access_key |-> None, secret_key |-> None, force_demo |-> TRUE]
    /\ response' = NoResponse
    /\ atCall' = env
    /\ liveCalls' = 0
    /\ genCalls' = 1
    /\ pc' = "done"
    /\ caller' = "direct"
    /\ dates' = DefaultDates(o)
    /\ period' = NoPeriod
    /\ UNCHANGED <<env, client, first, http, today>>

get_aws_cost_and_usage_demo ==
    /\ pc = "idle"
    /\ \E cost \in [MockRegions \X MockServices -> Uniform(1000, 50000)],
       daily \in Uniform(1000, 5000) :
        LET d == DefaultDates("get_aws_cost_and_usage")
        IN  Synthetic("get_aws_cost_and_usage", "generate_mock_data",
                      generate_mock_data(d.start_date, d.end_date, cost, daily))

get_aws_daily_usage_demo ==
    /\ pc = "idle"
    /\ \E daily \in Uniform(500, 3000) :
        Synthetic("get_aws_daily_usage", "inline_daily_cost", inline_daily_cost(daily))

get_daily_cost_demo ==
    /\ pc = "idle"
    /\ \E cost \in [1..7 -> Uniform(1500, 4500)] :
        Synthetic("get_daily_cost", "generate_mock_daily_cost",
                  generate_mock_daily_cost(today, cost))

get_service_cost_demo ==
    /\ pc = "idle"
    /\ \E ec2 \in Uniform(10000, 50000), rds \in Uniform(5000, 30000),
       s3 \in Uniform(2000, 15000), lambda \in Uniform(1000, 10000),
       cloudfront \in Uniform(3000, 20000), dynamodb \in Uniform(1500, 12000),
       vpc \in Uniform(500, 5000) :
        Synthetic("get_service_cost", "generate_mock_service_cost",
                  generate_mock_service_cost(ec2, rds, s3, lambda, cloudfront, dynamodb, vpc))

get_region_cost_demo ==
    /\ pc = "idle"
    /\ \E use1 \in Uniform(20000, 60000), usw2 \in Uniform(15000, 40000),
       euw1 \in Uniform(10000, 35000), apse1 \in Uniform(8000, 25000),
       apne1 \in Uniform(6000, 20000), euc1 \in Uniform(5000, 18000) :
        Synthetic("get_region_cost", "generate_mock_region_cost",
                  generate_mock_region_cost(use1, usw2, euw1, apse1, apne1, euc1))

get_region_service_breakdown_demo ==
    /\ pc = "idle"
    /\ \E selected \in [MockBreakdownRegions -> Selections],
       cost \in [MockBreakdownRegions \X MockServices -> Uniform(1000, 15000)] :
        Synthetic("get_region_service_breakdown", "generate_mock_region_service_breakdown",
                  generate_mock_region_service_breakdown(selected, cost))

get_aws_resource_usage_demo ==
    /\ pc = "idle"
    /\ \E sample \in [Range(MockUsageRegions) \X DOMAIN services_usage ->
                      UNION { Samples(services_usage[s]) : s \in DOMAIN services_usage }],
       count \in [UsagePlaces -> Uniform(100, 100000)],
       cost \in [UsagePlaces -> Uniform(10, 5000)] :
        /\ \A c \in DOMAIN sample : sample[c] \in Samples(services_usage[c[2]])
        /\ LET d == DefaultDates("get_aws_resource_usage")
           IN  Synthetic("get_aws_resource_usage", "generate_mock_usage_data",
                         generate_mock_usage_data(d.start_date, d.end_date, sample, count, cost))

NextSynthetic ==
    \/ get_aws_cost_and_usage_demo
    \/ get_aws_daily_usage_demo
    \/ get_daily_cost_demo
    \/ get_service_cost_demo
    \/ get_region_cost_demo
    \/ get_region_service_breakdown_demo
    \/ get_aws_resource_usage_demo
    \/ Finish

SpecSynthetic == InitReshape /\ [][NextSynthetic]_vars

-----------------------------------------------------------------------------
(* Vocabulary of the properties *)

\* a boolean-valued environment string that reads "true" in any case
SwitchOn(v) == v \in { "true", "True", "TRUE" }

DemoSwitch == SwitchOn(env["USE_DEMO_DATA"])

FallbackSwitch == SwitchOn(env["FALLBACK_TO_DEMO"])

\* a key that is not there or is empty
Missing(k) == k = None \/ k = ""

\* the caller's value if it has one, else the environment's
ResolvedAccessKey ==
    IF Missing(ctx.access_key) THEN env["AWS_ACCESS_KEY_ID"] ELSE ctx.access_key

ResolvedSecretKey ==
    IF Missing(ctx.secret_key) THEN env["AWS_SECRET_ACCESS_KEY"] ELSE ctx.secret_key

KeyMissing == Missing(ResolvedAccessKey) \/ Missing(ResolvedSecretKey)

\* an operation has been entered / has returned or raised
InCall == op # "none"

Finished == pc \in { "done", "responded" }

IsSynthetic == result.kind = "return" /\ result.source = "synthetic"

NoLiveCall == liveCalls = 0 /\ response.kind = "none" /\ client = NoClient

\* the live path of the current operation failed: the billing call raised,
\* or reshaping its answer raised
LiveFailed ==
    \/ response.kind = "error"
    \/ response.kind = "report" /\ IsMalformed(response.report)

\* the demo-switch branch of get_aws_cost_and_usage (lines 24-31) is taken;
\* no other operation has one
DemoBranchTaken ==
    /\ op = "get_aws_cost_and_usage"
    /\ ~(ctx.access_key # None /\ ctx.secret_key # None)
    /\ DemoSwitch

\* the data-source decision the current operation reached
Decision ==
    IF liveCalls > 0 THEN "live"
    ELSE IF result.kind = "raise" THEN "raise"
    ELSE "synthetic"

\* the synthetic generator of each report type
MockOf(o) ==
    CASE o = "get_aws_cost_and_usage" -> "generate_mock_data"
      [] o = "get_aws_daily_usage" -> "inline_daily_cost"
      [] o = "get_daily_cost" -> "generate_mock_daily_cost"
      [] o = "get_service_cost" -> "generate_mock_service_cost"
      [] o = "get_region_cost" -> "generate_mock_region_cost"
      [] o = "get_region_service_breakdown" -> "generate_mock_region_service_breakdown"
      [] o = "get_aws_resource_usage" -> "generate_mock_usage_data"

CredentialMessages ==
    { "AWS Credentials not provided.",
      "AWS Credentials not provided and demo mode not active." }

-----------------------------------------------------------------------------
(* Properties *)

\* C1: in every operation, force_demo gives synthetic data: the operation
\* has returned the report type's synthetic data, has made no billing call
\* and has not raised, whatever the keys and the environment are.
C1_ForceDemoIsSynthetic ==
    (InCall /\ ctx.force_demo) =>
        /\ Finished
        /\ IsSynthetic
        /\ result.generator = MockOf(op)
        /\ NoLiveCall

C1_Witness ==
    /\ pc = "done"
    /\ op = "get_region_service_breakdown"
    /\ ctx = [access_key |-> "AK", secret_key |-> "SK", force_demo |-> TRUE]
    /\ env["AWS_ACCESS_KEY_ID"] = "EAK" /\ env["AWS_SECRET_ACCESS_KEY"] = "ESK"
    /\ ~DemoSwitch /\ ~FallbackSwitch
    /\ IsSynthetic

\* C2 (as claimed): for the arguments and the environment of the current
\* call, each of the seven operations reaches the decision the current
\* operation reached; with both caller keys absent and USE_DEMO_DATA on,
\* that decision is synthetic.
C2_SameDecisionInEveryOperation ==
    InCall =>
        /\ \A o \in Operations :
              LET k == Resolve(o, ctx.access_key, ctx.secret_key, ctx.force_demo, env).kind
              IN  (IF k = "live" THEN "live" ELSE k) = Decision
        /\ (ctx.access_key = None /\ ctx.secret_key = None /\ DemoSwitch) =>
              Decision = "synthetic"

\* C3: get_aws_cost_and_usage without force_demo and without caller keys:
\* with USE_DEMO_DATA on it returns synthetic data and makes no billing
\* call; with USE_DEMO_DATA off, an environment key missing and
\* FALLBACK_TO_DEMO off it raises the credentials-missing error and makes no
\* billing call.
C3_NoCallerKeys ==
    (/\ InCall
     /\ op = "get_aws_cost_and_usage"
     /\ ~ctx.force_demo
     /\ ctx.access_key = None /\ ctx.secret_key = None) =>
        /\ DemoSwitch => (Finished /\ IsSynthetic /\ NoLiveCall)
        /\ (/\ ~DemoSwitch
            /\ Missing(env["AWS_ACCESS_KEY_ID"]) \/ Missing(env["AWS_SECRET_ACCESS_KEY"])
            /\ ~FallbackSwitch) =>
              /\ Finished
              /\ result.kind = "raise"
              /\ result.error = [type |-> "Exception", code |-> None,
                                 message |-> "AWS Credentials not provided and demo mode not active."]
              /\ NoLiveCall

C3_Witness ==
    /\ pc = "done"
    /\ op = "get_aws_cost_and_usage"
    /\ ctx = [access_key |-> None, secret_key |-> None, force_demo |-> FALSE]
    /\ env["USE_DEMO_DATA"] = "TRUE"
    /\ env["AWS_ACCESS_KEY_ID"] = "EAK" /\ env["AWS_SECRET_ACCESS_KEY"] = "ESK"
    /\ IsSynthetic /\ NoLiveCall

\* C4 (as claimed): without force_demo, with USE_DEMO_DATA on and exactly
\* one caller key supplied, the operation goes on to credential resolution:
\* a billing call when both keys resolve, else synthetic data with
\* FALLBACK_TO_DEMO on and the credentials-missing error with it off.
C4_DemoSwitchNeedsBothKeysAbsent ==
    (/\ InCall
     /\ ~ctx.force_demo
     /\ DemoSwitch
     /\ (ctx.access_key = None) # (ctx.secret_key = None)) =>
        IF KeyMissing
        THEN /\ Finished
             /\ NoLiveCall
             /\ IF FallbackSwitch THEN IsSynthetic ELSE result.kind = "raise"
        ELSE liveCalls = 1

\* C5: in every operation that has not returned from an earlier branch
\* (force_demo; in get_aws_cost_and_usage the demo-switch branch), a missing
\* resolved key gives synthetic data with FALLBACK_TO_DEMO on and the
\* credentials-missing error with it off, and no billing call either way.
C5_MissingKeyFallsBackOrFails ==
    (InCall /\ ~ctx.force_demo /\ ~DemoBranchTaken /\ KeyMissing) =>
        /\ Finished
        /\ NoLiveCall
        /\ IF FallbackSwitch
           THEN IsSynthetic /\ result.generator = MockOf(op)
           ELSE /\ result.kind = "raise"
                /\ result.error.type = "Exception"
                /\ result.error.code = None
                /\ result.error.message \in CredentialMessages

C5_Witness ==
    /\ pc = "done"
    /\ op = "get_service_cost"
    /\ ctx = [access_key |-> "AK", secret_key |-> None, force_demo |-> FALSE]
    /\ env["AWS_ACCESS_KEY_ID"] = "EAK" /\ env["AWS_SECRET_ACCESS_KEY"] = ""
    /\ ~FallbackSwitch
    /\ result.kind = "raise"
    /\ NoLiveCall

\* C6: an operation that makes the billing call creates its client with the
\* caller's access key if it has one, else AWS_ACCESS_KEY_ID; with the
\* caller's secret key if it has one, else AWS_SECRET_ACCESS_KEY, each on
\* its own; and with AWS_REGION if it is set, else "us-east-1".
C6_LiveCredentials ==
    liveCalls > 0 =>
        client = [aws_access_key_id |-> ResolvedAccessKey,
                  aws_secret_access_key |-> ResolvedSecretKey,
                  region_name |-> IF env["AWS_REGION"] = None THEN "us-east-1"
                                  ELSE env["AWS_REGION"]]

C6_Witness ==
    /\ pc = "live"
    /\ op = "get_region_cost"
    /\ ctx = [access_key |-> "AK", secret_key |-> None, force_demo |-> FALSE]
    /\ env["AWS_ACCESS_KEY_ID"] = "EAK"
    /\ client = [aws_access_key_id |-> "AK", aws_secret_access_key |-> "ESK",
                 region_name |-> "us-east-1"]

\* C7: when the live path of an operation failed, with FALLBACK_TO_DEMO on
\* the operation returns the synthetic data of its report type, and with it
\* off it raises the very exception the live path raised.
C7_LiveFailureFallsBackOrPropagates ==
    (InCall /\ LiveFailed) =>
        /\ Finished
        /\ IF FallbackSwitch
           THEN IsSynthetic /\ result.generator = MockOf(op)
           ELSE result.kind = "raise" /\ result.error = response.error

C7_Witness ==
    /\ pc = "done"
    /\ op = "get_region_service_breakdown"
    /\ response.kind = "error"
    /\ response.error.code = "AccessDeniedException"
    /\ ~FallbackSwitch
    /\ result.kind = "raise"
    /\ result.error.type = "ClientError"
    /\ result.error.code = "AccessDeniedException"

\* C8: one execution of an operation makes at most one billing call and at
\* most one generator call, and once the billing call has answered or raised
\* the operation is not in a billing call again.
C8_AtMostOneCallEach ==
    /\ liveCalls <= 1
    /\ genCalls <= 1
    /\ response.kind # "none" => (pc # "live" /\ liveCalls = 1)

C8_Witness ==
    /\ pc = "done"
    /\ op = "get_daily_cost"
    /\ response.kind = "error"
    /\ liveCalls = 1
    /\ genCalls = 1
    /\ IsSynthetic

\* C9: without force_demo, with both keys resolved, the demo-switch branch
\* not taken and a well-formed answer of the billing call, the operation
\* returns the reshaped answer and no generator is called.
C9_LiveSuccessIsLiveData ==
    (/\ InCall
     /\ ~ctx.force_demo
     /\ ~DemoBranchTaken
     /\ ~KeyMissing
     /\ response.kind = "report"
     /\ ~IsMalformed(response.report)) =>
        /\ Finished
        /\ result.kind = "return"
        /\ result.source = "live"
        /\ result.data = Reshape(op, response.report)
        /\ genCalls = 0

C9_Witness ==
    /\ pc = "done"
    /\ op = "get_aws_daily_usage"
    /\ FallbackSwitch
    /\ response.kind = "report"
    /\ Len(response.report) = 2
    /\ result.source = "live"
    /\ result.data = [daily_cost |-> 251]
    /\ genCalls = 0

-----------------------------------------------------------------------------
(* Vocabulary of the properties of the reshapers *)

\* the current operation returned what it reshaped from the billing answer
Reshaped(o) ==
    /\ op = o
    /\ response.kind = "report"
    /\ ~IsMalformed(response.report)
    /\ result.kind = "return"
    /\ result.source = "live"

\* the places <<bucket, group>> of the groups of a report
Cells(report) ==
    UNION { { <<i, j>> : j \in 1..Len(report[i].Groups) } : i \in 1..Len(report) }

GroupAt(report, c) == report[c[1]].Groups[c[2]]

RECURSIVE SumOf(_)
\* the sum of the values of a function with a finite domain
SumOf(f) ==
    IF DOMAIN f = {} THEN 0
    ELSE LET c == CHOOSE x \in DOMAIN f : TRUE
         IN  f[c] + SumOf([x \in DOMAIN f \ { c } |-> f[x]])

\* the unrounded cost of the groups of report at the places in cells
CostOf(report, cells) == SumOf([c \in cells |-> GroupAt(report, c).Amount])

\* the unrounded usage quantity of the groups of report at the places in cells
UsageOf(report, cells) == SumOf([c \in cells |-> GroupAt(report, c).UsageQuantity])

\* the places of the groups of region r / of region r and service s
CellsOfRegion(report, r) == { c \in Cells(report) : GroupAt(report, c).Keys[1] = r }

CellsOfRegionService(report, r, s) ==
    { c \in CellsOfRegion(report, r) : GroupAt(report, c).Keys[2] = s }

-----------------------------------------------------------------------------
(* Properties of the reshapers *)

\* C11: in the combined report every region's total is the sum of all the
\* region's group amounts of all buckets, rounded once, and every service
\* entry of the region is the sum of the amounts of all groups of that
\* region and service, rounded once: no amount is rounded before it is added
C11_RoundedAfterSummation ==
    Reshaped("get_aws_cost_and_usage") =>
        LET report == response.report
            regions == result.data.regions
        IN  /\ DOMAIN regions = { GroupAt(report, c).Keys[1] : c \in Cells(report) }
            /\ \A r \in DOMAIN regions :
                /\ regions[r].total = Round2(CostOf(report, CellsOfRegion(report, r)))
                /\ DOMAIN regions[r].services =
                       { GroupAt(report, c).Keys[2] : c \in CellsOfRegion(report, r) }
                /\ \A s \in DOMAIN regions[r].services :
                       regions[r].services[s] =
                           Round2(CostOf(report, CellsOfRegionService(report, r, s)))

\* two buckets with one group ("us-east-1", "EC2", 10.004) each give 20.01
\* for the region and for its service, not 10.00 + 10.00
C11_Witness ==
    /\ Reshaped("get_aws_cost_and_usage")
    /\ Len(response.report) = 2
    /\ \A i \in 1..2 :
          response.report[i].Groups = << Group(<<"us-east-1", "EC2">>, 10004, 0, "") >>
    /\ result.data.regions["us-east-1"].total = 2001
    /\ result.data.regions["us-east-1"].services["EC2"] = 2001

\* the absolute value
Abs(x) == IF x < 0 THEN -x ELSE x

\* the sum of the rounded region totals of a combined report, in cents
SumOfRegionTotals(data) == SumOf([r \in DOMAIN data.regions |-> data.regions[r].total])

\* C12 as stated: the sum of the rounded region totals differs from
\* total_cost by at most 0.005 per region, that is, twice the difference in
\* cents is at most the number of regions
C12_WithinHalfCentPerRegion ==
    Reshaped("get_aws_cost_and_usage") =>
        2 * Abs(SumOfRegionTotals(result.data) - result.data.total_cost)
            <= Cardinality(DOMAIN result.data.regions)

\* C12 amended: the sum of the rounded region totals differs from total_cost
\* by at most 0.005 per region and 0.005 more for the rounding of total_cost
\* itself: twice the difference in cents is at most the number of regions
\* plus one
C12_WithinHalfCentPerRoundedValue ==
    Reshaped("get_aws_cost_and_usage") =>
        2 * Abs(SumOfRegionTotals(result.data) - result.data.total_cost)
            <= Cardinality(DOMAIN result.data.regions) + 1

\* three regions of 0.375 each: 0.38 + 0.38 + 0.38 = 1.14 against a
\* total_cost of round(1.125, 2) = 1.12
C12_Witness ==
    /\ Reshaped("get_aws_cost_and_usage")
    /\ Cardinality(DOMAIN result.data.regions) = 3
    /\ \A r \in DOMAIN result.data.regions : result.data.regions[r].total = 38
    /\ result.data.total_cost = 112

\* C13: in the live region-by-service breakdown every service entry of a
\* region is the sum of the amounts of all groups of that region and service
\* of all buckets, rounded once, and the region's total is the rounded sum
\* of the region's unrounded amounts
C13_BreakdownAccumulatesThenRounds ==
    Reshaped("get_region_service_breakdown") =>
        LET report == response.report
            regions == result.data.regions
        IN  \A r \in DOMAIN regions :
                /\ regions[r].total = Round2(CostOf(report, CellsOfRegion(report, r)))
                /\ \A s \in DOMAIN regions[r].services :
                       regions[r].services[s] =
                           Round2(CostOf(report, CellsOfRegionService(report, r, s)))

\* the report of operation o with nothing in it
ZeroShape(o) ==
    CASE o = "get_aws_cost_and_usage" ->
            [total_cost |-> 0, regions |-> <<>>, consolidated |-> <<>>,
             period |-> [start |-> "", end |-> ""]]
      [] o = "get_aws_resource_usage" ->
            [regions |-> <<>>, consolidated |-> <<>>, period |-> [start |-> "", end |-> ""]]
      [] o = "get_aws_daily_usage" -> [daily_cost |-> 0]
      [] o = "get_daily_cost" -> [daily_costs |-> <<>>]
      [] o = "get_service_cost" -> [services |-> <<>>, total_cost |-> 0]
      [] o = "get_region_cost" -> [regions |-> <<>>, total_cost |-> 0]
      [] o = "get_region_service_breakdown" -> [regions |-> <<>>, total_cost |-> 0]

\* C14: when the billing call answers a report without buckets, the
\* operation does not raise and does not fall back: it returns its report
\* with empty maps or list, zero totals and empty period strings
C14_EmptyReportGivesZeroShape ==
    (response.kind = "report" /\ response.report = <<>>) =>
        /\ result.kind = "return"
        /\ result.source = "live"
        /\ result.data = ZeroShape(op)

\* the combined report of an answer without buckets, with fallback enabled
C14_Witness ==
    /\ op = "get_aws_cost_and_usage"
    /\ response.kind = "report"
    /\ response.report = <<>>
    /\ FallbackSwitch
    /\ result.kind = "return"
    /\ result.data.total_cost = 0
    /\ result.data.period = [start |-> "", end |-> ""]

\* the places of the groups of a usage report that are not skipped: not
\* both the usage quantity and the cost are zero
Retained(report) ==
    { c \in Cells(report) :
        ~(GroupAt(report, c).UsageQuantity = 0 /\ GroupAt(report, c).Amount = 0) }

RetainedOfService(report, s) == { c \in Retained(report) : GroupAt(report, c).Keys[1] = s }

\* the record of a group in the per-region output
UsageRecord(g) ==
    [component |-> Component(g.Keys[2]), count |-> Round2(g.UsageQuantity),
     cost |-> Round2(g.Amount), unit |-> g.Unit]

\* C15: in the usage report a group is in neither output exactly when its
\* usage quantity and its cost are both zero: every other group, also one
\* with only one of the two zero, has its record in its service's list of
\* the per-region output and its component in its service's consolidated
\* list, and the outputs hold nothing else
C15_SkippedIffBothZero ==
    Reshaped("get_aws_resource_usage") =>
        LET report == response.report
            data == result.data
            services == { GroupAt(report, c).Keys[1] : c \in Retained(report) }
        IN  /\ DOMAIN data.regions = IF services = {} THEN {} ELSE { "Global/Linked" }
            /\ DOMAIN data.consolidated = services
            /\ \A r \in DOMAIN data.regions :
                /\ DOMAIN data.regions[r] = services
                /\ \A s \in services :
                    /\ Len(data.regions[r][s]) = Cardinality(RetainedOfService(report, s))
                    /\ \A c \in RetainedOfService(report, s) :
                           UsageRecord(GroupAt(report, c)) \in Range(data.regions[r][s])
            /\ \A s \in services :
                   { x.component : x \in Range(data.consolidated[s]) } =
                       { Component(GroupAt(report, c).Keys[2]) :
                           c \in RetainedOfService(report, s) }

\* a group with quantity 0 and a cost, a group with a quantity and cost 0
\* and a group with both zero: the first two are in both outputs, the
\* third is in neither
C15_Witness ==
    /\ Reshaped("get_aws_resource_usage")
    /\ Len(response.report) = 1
    /\ response.report[1].Groups =
          << Group(<<"EC2", VolumeUsageUSW2>>, 375, 0, "GB-Mo"),
             Group(<<"EC2", VolumeUsageEUW1>>, 0, 10004, "GB-Mo"),
             Group(<<"S3", RequestsTier1>>, 0, 0, "Requests") >>
    /\ DOMAIN result.data.consolidated = { "EC2" }
    /\ Len(result.data.regions["Global/Linked"]["EC2"]) = 2

\* the positions of the colons of a usage type
Colons(usage_type) == { i \in 1..Len(usage_type) : usage_type[i] = ":" }

\* the part of a usage type after its last colon
AfterLastColon(usage_type) ==
    LET k == CHOOSE i \in Colons(usage_type) : \A j \in Colons(usage_type) : j <= i
    IN  SubSeq(usage_type, k + 1, Len(usage_type))

\* the retained groups of service s in the order of the report
RetainedSeq(report, s) ==
    SelectSeq(AllGroups(report),
              LAMBDA g : g.Keys[1] = s /\ ~(g.UsageQuantity = 0 /\ g.Amount = 0))

\* C16: the component shown for a usage type is the part after its last
\* colon when it has a colon, and the whole usage type when it has none
C16_ComponentIsPartAfterLastColon ==
    Reshaped("get_aws_resource_usage") =>
        \A r \in DOMAIN result.data.regions : \A s \in DOMAIN result.data.regions[r] :
            LET list == result.data.regions[r][s]
                groups == RetainedSeq(response.report, s)
            IN  /\ Len(list) = Len(groups)
                /\ \A i \in 1..Len(list) :
                       list[i].component =
                           IF Colons(groups[i].Keys[2]) = {} THEN groups[i].Keys[2]
                           ELSE AfterLastColon(groups[i].Keys[2])

\* a usage type with two colons is shown as the part after the second
C16_Witness ==
    /\ Reshaped("get_aws_resource_usage")
    /\ Len(response.report) = 1
    /\ Len(response.report[1].Groups) = 1
    /\ response.report[1].Groups[1].Keys[2] = << "EBS", ":", "EBS", ":", "VolumeUsage" >>
    /\ result.data.regions["Global/Linked"]["EC2"][1].component = << "VolumeUsage" >>

\* the places of the retained groups of service s whose usage type is
\* shown as component
RetainedOfComponent(report, s, component) ==
    { c \in RetainedOfService(report, s) :
        Component(GroupAt(report, c).Keys[2]) = component }

\* C17: the consolidated list of a service has one record for each
\* component of its retained groups and no two records with the same
\* component; a record's count and cost are the sums of the unrounded usage
\* quantities and costs of all retained groups of the service with that
\* component, of all buckets and usage-type prefixes, each rounded once
C17_ConsolidatedPerComponent ==
    Reshaped("get_aws_resource_usage") =>
        LET report == response.report
        IN  \A s \in DOMAIN result.data.consolidated :
            LET list == result.data.consolidated[s]
            IN  /\ \A i, j \in 1..Len(list) : list[i].component = list[j].component => i = j
                /\ { list[i].component : i \in 1..Len(list) } =
                       { Component(GroupAt(report, c).Keys[2]) :
                           c \in RetainedOfService(report, s) }
                /\ \A i \in 1..Len(list) :
                    LET cells == RetainedOfComponent(report, s, list[i].component)
                    IN  /\ list[i].count = Round2(UsageOf(report, cells))
                        /\ list[i].cost = Round2(CostOf(report, cells))

\* the same component under two prefixes, in two buckets: one record with
\* count round(10.004 + 10.004) = 20.01 and cost round(0.375 + 0.375) = 0.75
C17_Witness ==
    /\ Reshaped("get_aws_resource_usage")
    /\ Len(response.report) = 2
    /\ response.report[1].Groups = << Group(<<"EC2", VolumeUsageUSW2>>, 375, 10004, "GB-Mo") >>
    /\ response.report[2].Groups = << Group(<<"EC2", VolumeUsageEUW1>>, 375, 10004, "GB-Mo") >>
    /\ result.data.consolidated["EC2"] =
          << [component |-> << "VolumeUsage" >>, count |-> 2001, cost |-> 75,
              unit |-> "GB-Mo"] >>

-----------------------------------------------------------------------------
(* Properties of the queries and of the daily reports *)

\* the names of the group-by dimensions of the current query, in order
GroupByKeys == [i \in 1..Len(query.GroupBy) |-> query.GroupBy[i].Key]

\* C18: an operation that made its billing call asked with the
\* granularity, the metrics and the group-by dimensions, in order, of its
\* report type: the combined report with the caller's granularity, the
\* amortized cost, by region then service; the daily cost daily, the
\* unblended cost, ungrouped; the daily usage daily, the amortized cost,
\* ungrouped; the service, region and breakdown reports monthly, the
\* unblended cost, by service, by region, by region then service; the
\* resource usage monthly, usage quantity and amortized cost, by service
\* then usage type
C18_QueryOfEachOperation ==
    liveCalls > 0 =>
        /\ \A i \in 1..Len(query.GroupBy) : query.GroupBy[i].Type = "DIMENSION"
        /\ <<query.Granularity, query.Metrics, GroupByKeys>> =
              CASE op = "get_aws_cost_and_usage" ->
                      <<granularity, << "AmortizedCost" >>, << "REGION", "SERVICE" >> >>
                [] op = "get_daily_cost" ->
                      <<"DAILY", << "UnblendedCost" >>, <<>> >>
                [] op = "get_aws_daily_usage" ->
                      <<"DAILY", << "AmortizedCost" >>, <<>> >>
                [] op = "get_service_cost" ->
                      <<"MONTHLY", << "UnblendedCost" >>, << "SERVICE" >> >>
                [] op = "get_region_cost" ->
                      <<"MONTHLY", << "UnblendedCost" >>, << "REGION" >> >>
                [] op = "get_region_service_breakdown" ->
                      <<"MONTHLY", << "UnblendedCost" >>, << "REGION", "SERVICE" >> >>
                [] op = "get_aws_resource_usage" ->
                      <<"MONTHLY", << "UsageQuantity", "AmortizedCost" >>,
                        << "SERVICE", "USAGE_TYPE" >> >>

\* the combined report asked for daily, suspended in its billing call
C18_Witness ==
    /\ op = "get_aws_cost_and_usage"
    /\ pc = "live"
    /\ liveCalls = 1
    /\ granularity = "DAILY"
    /\ query.Granularity = "DAILY"
    /\ query.Metrics = << "AmortizedCost" >>

\* C19: the live daily usage is the total of the last bucket of the
\* answer, rounded to cents; the live 7-day daily cost has one entry for
\* each bucket, in the order of the buckets, with the bucket's start as its
\* date and the bucket's rounded total as its cost
C19_DailyReportsFollowTheBuckets ==
    LET report == response.report
    IN  /\ (Reshaped("get_aws_daily_usage") /\ report # <<>>) =>
               result.data.daily_cost = Round2(report[Len(report)].Total)
        /\ Reshaped("get_daily_cost") =>
               /\ Len(result.data.daily_costs) = Len(report)
               /\ \A i \in 1..Len(report) :
                      /\ result.data.daily_costs[i].date = report[i].Start
                      /\ result.data.daily_costs[i].cost = Round2(report[i].Total)

\* two buckets of 10.004 and 2.506: the daily usage is 2.51
C19_Witness ==
    /\ Reshaped("get_aws_daily_usage")
    /\ Len(response.report) = 2
    /\ response.report[1].Total = 10004
    /\ response.report[2].Total = 2506
    /\ result.data.daily_cost = 251

-----------------------------------------------------------------------------
(* Properties of the endpoints *)

\* the provider codes of rejected credentials
AuthenticationCodes ==
    { "UnrecognizedClientException", "InvalidClientTokenId", "AuthFailure",
      "InvalidAccessKeyId", "SignatureDoesNotMatch" }

\* C20: an endpoint that answered after its operation raised answered 401
\* for a provider failure with a code of rejected credentials, 403 for a
\* provider failure with the code AccessDeniedException, and 500 for a
\* provider failure with any other code and for any other failure, the
\* missing credentials among them; an endpoint answers 200 only when no
\* operation raised
C20_StatusOfPropagatedFailure ==
    pc = "responded" =>
        LET err == result.error
            provider == err.type = "ClientError"
        IN  /\ result.kind = "raise" =>
                http.status =
                    IF provider /\ err.code \in AuthenticationCodes THEN 401
                    ELSE IF provider /\ err.code = "AccessDeniedException" THEN 403
                    ELSE 500
            /\ http.status = 200 => result.kind = "return"
            /\ http.status \in { 200, 401, 403, 500 }

\* /api/usage answers 401 after the provider rejected the signature
C20_Witness ==
    /\ pc = "responded"
    /\ caller = "get_usage"
    /\ result.kind = "raise"
    /\ result.error.type = "ClientError"
    /\ result.error.code = "SignatureDoesNotMatch"
    /\ http.status = 401

-----------------------------------------------------------------------------
(* Properties of the period and of the two views of the combined report *)

\* C24: the period of a combined report and of a usage report reshaped from
\* an answer with at least one bucket starts with the start of the first
\* bucket and ends with the end of the last bucket, whether or not the
\* buckets hold groups
C24_PeriodOfFirstAndLastBucket ==
    ((Reshaped("get_aws_cost_and_usage") \/ Reshaped("get_aws_resource_usage"))
        /\ response.report # <<>>) =>
        /\ result.data.period.start = response.report[1].Start
        /\ result.data.period.end = response.report[Len(response.report)].End

\* a usage report of two buckets without groups: its period runs from the
\* start of the first to the end of the second
C24_Witness ==
    /\ Reshaped("get_aws_resource_usage")
    /\ Len(response.report) = 2
    /\ \A i \in 1..2 : response.report[i].Groups = <<>>
    /\ response.report[1].End # response.report[2].End
    /\ result.data.period = [start |-> "2024-01-01", end |-> "2024-03-01"]

\* the places of the groups of service s
CellsOfService(report, s) == { c \in Cells(report) : GroupAt(report, c).Keys[2] = s }

\* C25: in the combined report the services of the consolidated view are
\* the services of all regions together, a service's consolidated total is
\* the sum of the unrounded amounts of its groups of all regions and
\* buckets, rounded once, and total_cost is the sum of the amounts of all
\* groups, rounded once
C25_ViewsAgree ==
    Reshaped("get_aws_cost_and_usage") =>
        LET report == response.report
            data == result.data
        IN  /\ DOMAIN data.consolidated =
                   UNION { DOMAIN data.regions[r].services : r \in DOMAIN data.regions }
            /\ \A s \in DOMAIN data.consolidated :
                   data.consolidated[s].total = Round2(CostOf(report, CellsOfService(report, s)))
            /\ data.total_cost = Round2(CostOf(report, Cells(report)))

\* S3 costs 0.375 in each of two regions: 0.38 in either region, 0.75 in
\* the consolidated view and in total_cost
C25_Witness ==
    /\ Reshaped("get_aws_cost_and_usage")
    /\ Cardinality(DOMAIN result.data.regions) = 2
    /\ \A r \in DOMAIN result.data.regions :
          /\ DOMAIN result.data.regions[r].services = { "S3" }
          /\ result.data.regions[r].services["S3"] = 38
    /\ result.data.consolidated["S3"].total = 75
    /\ result.data.total_cost = 75

-----------------------------------------------------------------------------
(* Properties of the time period *)

\* the operations reporting the current month up to the current date
MonthToDate == { "get_service_cost", "get_region_cost", "get_region_service_breakdown" }

\* C26: the time period a month-to-date operation sends with its billing
\* call starts, on the first day of the current month, strictly before it
\* ends, on the current date, on whichever date the call is made
C26_MonthToDateRangeNonEmpty ==
    (op \in MonthToDate /\ liveCalls > 0) => Before(period.Start, period.End)

-----------------------------------------------------------------------------
(* Properties of a call whose environment changes *)

\* what the code of the current operation after its billing call comes to
\* when it reads environment e
AfterBillingCall(e) ==
    IF response.kind = "error" THEN Except(op, response.error, e)
    ELSE Try(op, response.report, e)

\* C23: the outcome of an operation whose billing call was answered (the
\* live report, synthetic data by fallback, or the failure propagated) is
\* the one the environment of the start of the call determines, whatever
\* was assigned to the environment while the operation was suspended in
\* the billing call
C23_OutcomeOfCallTimeEnvironment ==
    (pc = "done" /\ liveCalls > 0) =>
        LET d == AfterBillingCall(atCall)
        IN  /\ IsSynthetic <=> d.kind = "synthetic"
            /\ result.kind = "raise" <=> d.kind = "raise"

-----------------------------------------------------------------------------
(* Properties of the synthetic generators *)

\* The structure of the data of operation o's report: its top-level keys
\* and the keys of the records nested in it
Shape(o, data) ==
    CASE o = "get_aws_cost_and_usage" ->
            [top |-> DOMAIN data,
             regions |-> { DOMAIN data.regions[r] : r \in DOMAIN data.regions },
             consolidated |-> { DOMAIN data.consolidated[s] : s \in DOMAIN data.consolidated },
             period |-> DOMAIN data.period]
      [] o = "get_aws_daily_usage" -> [top |-> DOMAIN data]
      [] o = "get_daily_cost" ->
            [top |-> DOMAIN data,
             daily_costs |-> { DOMAIN data.daily_costs[i] : i \in DOMAIN data.daily_costs }]
      [] o = "get_service_cost" -> [top |-> DOMAIN data]
      [] o = "get_region_cost" -> [top |-> DOMAIN data]
      [] o = "get_region_service_breakdown" ->
            [top |-> DOMAIN data,
             regions |-> { DOMAIN data.regions[r] : r \in DOMAIN data.regions }]
      [] o = "get_aws_resource_usage" ->
            [top |-> DOMAIN data,
             regions |->
                UNION { UNION { { DOMAIN rec : rec \in Range(data.regions[r][s]) } :
                                  s \in DOMAIN data.regions[r] } : r \in DOMAIN data.regions },
             consolidated |->
                UNION { { DOMAIN rec : rec \in Range(data.consolidated[s]) } :
                          s \in DOMAIN data.consolidated },
             period |-> DOMAIN data.period]

\* the structures of the reports operation o reshapes from the provider's
\* answers of at least one bucket
LiveShapes(o) == { Shape(o, Reshape(o, report)) : report \in ReportsFor(o) \ { <<>> } }

\* C21: the data a synthetic generator returns has the structure of the
\* data its operation reshapes from a live answer: the same top-level keys
\* and the same keys in the nested records
C21_SyntheticShapedAsLive ==
    (IsSynthetic /\ pc = "done") => \A live \in LiveShapes(op) : Shape(op, result.data) = live

\* the operations whose report carries per-service costs
CarryServiceCosts ==
    { "get_aws_cost_and_usage", "get_service_cost", "get_region_service_breakdown" }

\* the per-service cost amounts of the data of operation o's report
ServiceCosts(o, data) ==
    IF o = "get_service_cost"
    THEN { data.services[s] : s \in DOMAIN data.services }
    ELSE UNION { { data.regions[r].services[s] : s \in DOMAIN data.regions[r].services } :
                   r \in DOMAIN data.regions }

\* C22: every per-service cost of a synthetic combined report, service-cost
\* report and region x service breakdown is at least 10.00 and at most
\* 500.00
C22_ServiceCostsInRange ==
    (IsSynthetic /\ pc = "done" /\ op \in CarryServiceCosts) =>
        \A c \in ServiceCosts(op, result.data) : 1000 <= c /\ c <= 50000

====
